---------------------------- MODULE Spec2Model ----------------------------
(***************************************************************************)
(* A model of the session engine of the MQTT client (net.go, ping.go) and  *)
(* of its topic router (router.go).                                        *)
(*                                                                         *)
(* The four activities (incoming, outgoing, alllogic, keepalive) are       *)
(* processes with a program counter; every channel operation of the code   *)
(* is one step.  A send on an unbuffered channel is a joint step of the    *)
(* sender and the receiver.  A Go panic stops the whole process.           *)
(*                                                                         *)
(* The client code that creates the channels and tokens, the identifier    *)
(* registry, the tokens and internalConnLost are not among the sources;    *)
(* they are modelled from the specification's sections 3, 4.4, 4.6, 4.7.   *)
(***************************************************************************)
EXTENDS Integers, Sequences, FiniteSets, TLC

\* ---------------------------------------------------------------- bounds
MaxTokens == 2            \* user operations (tokens) per session
MaxId == 2                \* size of the message-ID space that is modelled
MaxIn == 2                \* packets the broker sends in a session
MessageChannelDepth == 1  \* capacity of obound, oboundP, incomingPubChan
KeepAlive == 1            \* options.KeepAlive, in clock ticks
PingTimeout == 1          \* options.PingTimeout, in clock ticks
MaxLen == 3               \* longest topic filter and topic of the router checks
MaxRoutes == 2            \* routes appended to the router's list in a session
MaxCb == 2                \* distinct callbacks (MessageHandler values)

ErrorsDepth == 1          \* capacity of the errors channel

Ids == 1..MaxId
TokenIds == 1..MaxTokens
SubLists == {<<"a">>, <<"a", "b">>}
\* granted-QoS lists a SUBACK may carry (0x80 = 128 is the failure code)
GrantedLists == {<<128>>, <<1, 128>>}

NoToken == 0              \* the nil Token of a reply (t: nil), a free index entry

\* ---------------------------------------------------------------- state
VARIABLES
  tokens,          \* the tokens created so far: [TokenIds -> token record]
  nTokens,         \* number of tokens created
  index,           \* messageIds.index: [Ids -> token id or NoToken]
  lastId,          \* the registry's sweeping counter
  obound,          \* channel of PacketAndToken (PUBLISH)
  oboundP,         \* channel of PacketAndToken (priority)
  incomingPubChan, \* channel of PUBLISH packets to the router
  errors,          \* channel of errors
  stop,            \* TRUE once the stop channel is closed
  connClosed,      \* TRUE once the connection is closed locally
  writerErr,       \* the sticky error of outgoing's bufio.Writer
  outPc, outMsg,   \* outgoing: position and the PacketAndToken in hand
  inPc, inCp,      \* incoming: position and the packet in hand
  logPc, logMsg,   \* alllogic: position and the packet in hand
  frees,           \* pending "go c.freeID(id)" goroutines: [Ids -> Nat]
  reposts,         \* pending "go func(){errChan <- errVal}" goroutines
  kaPc,            \* keepalive: position
  pingTimer, pingRespTimer, \* time.Timer: [active, rem, c]
  lastArmed,       \* which of the two timers was (re)armed last
  connLost,        \* number of calls of internalConnLost
  kaLost,          \* TRUE once keepalive declared "pingresp not received"
  panicked,        \* TRUE once a goroutine panicked
  packetsSent, packetsReceived,
  respAge,         \* history: ticks since a PINGRESP answered the last PINGREQ in time
  rtRoute, rtTopic, rtResult, rtPc, \* the router's matcher: arguments, result
  rtOp,            \* the call of addRoute / deleteRoute that just returned
  routes,          \* router.routes: sequence of [elem, filter, cb]
  nElems,          \* list elements created so far
  defaultHandler,  \* router.defaultHandler: a callback or NoHandler
  rPc, rOrder,     \* the dispatcher: position and its order argument
  rMsg,            \* the PUBLISH the dispatcher has in hand
  rCur,            \* the dispatcher's list cursor e: [elem, removed]
  rSent,           \* the dispatcher's flag sent
  spawned,         \* callbacks started with "go" that have not run yet
  calls,           \* history: the callback invocations, in order
  rFrom,           \* history: nElems when the message in hand was taken
  cIn,             \* the codec's input: a length, a packet or received bytes
  wire,            \* the bytes on the connection that are still to be read
  cOut,            \* what decodeLength / ReadPacket returned
  cPc,             \* the codec session's position
  packetPools,     \* packetPools: per message type a released packet or none
  reads,           \* number of inputs the codec session has taken
  released,        \* history: calls of Release on inbound packets, per caller
  conn,            \* history: the calls of conn.Write: [from, seq, bytes]
  writers          \* the bufio.Writer of outgoing and of keepalive

engineVars == <<tokens, nTokens, index, lastId, obound, oboundP, incomingPubChan,
                errors, stop, connClosed, writerErr, outPc, outMsg, inPc, inCp,
                logPc, logMsg, frees, reposts, kaPc, pingTimer,
                pingRespTimer, lastArmed, connLost, kaLost, panicked,
                packetsSent, packetsReceived, respAge>>
matchVars == <<rtRoute, rtTopic, rtResult>>
listVars == <<routes, nElems>>
dispatchVars == <<rPc, rOrder, rMsg, rCur, rSent, spawned, calls, rFrom>>
routeVars == <<matchVars, rtPc, rtOp, listVars, defaultHandler, dispatchVars>>
connVars == <<conn, writers>>
codecVars == <<cIn, wire, cOut, cPc, packetPools, reads, connVars>>
vars == <<engineVars, routeVars, codecVars, released>>

\* ---------------------------------------------------------------- packets
Pkt(kind, qos, mid, granted) ==
  [kind |-> kind, qos |-> qos, mid |-> mid, granted |-> granted,
   topic |-> <<>>, payload |-> 0]

\* a PUBLISH with its topic name and payload
PubPkt(qos, mid, topic, payload) ==
  [Pkt("PUBLISH", qos, mid, <<>>) EXCEPT !.topic = topic, !.payload = payload]

NoPkt == Pkt("none", 0, 0, <<>>)
NoMsg == [p |-> NoPkt, t |-> NoToken]

\* a Go map as a function on the keys it holds
EmptyMap == [k \in {} |-> 0]
MapPut(m, k, v) == [x \in DOMAIN m \cup {k} |-> IF x = k THEN v ELSE m[x]]

NoTokenRec ==
  [kind |-> "none", qos |-> 0, mid |-> 0, subs |-> <<>>,
   subResult |-> EmptyMap, done |-> 0]

NewToken(kind, qos, subs) ==
  [NoTokenRec EXCEPT !.kind = kind, !.qos = qos, !.subs = subs]

\* packets.go: big-endian 16-bit integers
encodeUint16(num) == <<num \div 256, num % 256>>
loadUint16(src) == IF Len(src) < 2 THEN 0 ELSE src[1] * 256 + src[2]

\* SubackPacket.Unpack: the message ID, then one granted-QoS byte per filter
SubackUnpack(src) ==
  Pkt("SUBACK", 0, loadUint16(src),
      IF Len(src) < 2 THEN <<>> ELSE SubSeq(src, 3, Len(src)))

\* what the broker may send
InPackets ==
  {Pkt("PINGRESP", 0, 0, <<>>)}
  \cup {Pkt("PUBLISH", 0, 0, <<>>)}
  \cup {Pkt("PUBLISH", q, i, <<>>) : q \in 1..2, i \in Ids}
  \cup {Pkt(k, 0, i, <<>>) :
          k \in {"UNSUBACK", "PUBACK", "PUBREC", "PUBREL", "PUBCOMP"}, i \in Ids}
  \cup {SubackUnpack(encodeUint16(i) \o g) : i \in Ids, g \in GrantedLists}


\* ---------------------------------------------------------------- helpers
Min(a, b) == IF a < b THEN a ELSE b
HasRoom(ch, depth) == Len(ch) < depth

\* msg.Release() in alllogic, message.Release() in the dispatcher
LogicReleases == released' = [released EXCEPT !.logic = @ + 1]
RouterReleases == released' = [released EXCEPT !.router = @ + 1]

outVars == <<outPc, outMsg, writerErr, packetsSent>>
inVars == <<inPc, inCp, packetsReceived>>
logVars == <<logPc, logMsg>>
kaVars == <<kaPc, pingTimer, pingRespTimer, lastArmed, kaLost, respAge>>
idVars == <<index, lastId>>
sessVars == <<stop, connClosed, connLost>>

\* ---------------------------------------------------------------- tokens
\* Token.flowComplete: marks the token complete.  done counts the calls
\* (2 stands for "twice or more").
AfterFlowComplete(t) == [tokens EXCEPT ![t].done = Min(@ + 1, 2)]

\* ---------------------------------------------------------------- registry
\* messageIds.getID: the next ID that is not held, sweeping from the last
\* one allocated; the caller blocks while every ID is held.
SweepId(k) == ((lastId + k - 1) % MaxId) + 1
IdAvailable == \E i \in Ids : index[i] = NoToken
NextFreeId ==
  LET k == CHOOSE k \in 1..MaxId :
             /\ index[SweepId(k)] = NoToken
             /\ \A j \in 1..(k - 1) : index[SweepId(j)] # NoToken
  IN SweepId(k)
\* messageIds.getToken: the token that holds the ID, or nil
GetToken(id) == index[id]
\* messageIds.freeID: removes the mapping; a no-op on an ID that is not held
AfterFreeId(id) == [index EXCEPT ![id] = NoToken]

\* ---------------------------------------------------------------- timers
\* time.Timer as the program is built (no go.mod, so the pre-1.23 timer
\* channels): C is a channel of capacity 1 that the runtime fills when the
\* timer expires; Stop and Reset do not drain it.
TimerStop(t) == [t EXCEPT !.active = FALSE, !.rem = 0]
TimerReset(t, d) == [t EXCEPT !.active = TRUE, !.rem = d]
TimerRecv(t) == [t EXCEPT !.c = FALSE]

\* ---------------------------------------------------------------- router state
NoHandler == 0            \* a nil MessageHandler
Callbacks == 1..MaxCb
NoOp == [op |-> "none", filter |-> <<>>, cb |-> NoHandler]
\* a nil *list.Element
NilElem == [elem |-> 0, removed |-> FALSE]

\* ---------------------------------------------------------------- codec state
\* packets.go: the message types; packetPools has MaxMessageType - 1 pools
Publish == 3
Pubrec == 5
Subscribe == 8
Suback == 9
Unsubscribe == 10
MaxMessageType == 14
PoolTypes == 1..(MaxMessageType - 1)

\* a control packet as the codec sees it: the fixed header's fields, the
\* message ID, PUBLISH's topic and payload, the topic list and the QoS list
\* (SUBSCRIBE's Qoss, SUBACK's GrantedQoss); byte strings are sequences of
\* numbers in 0..255
CPkt(type, dup, qos, retain, mid, topic, payload, topics, qoss) ==
  [type |-> type, dup |-> dup, qos |-> qos, retain |-> retain,
   remLen |-> 0, mid |-> mid, topic |-> topic, payload |-> payload,
   topics |-> topics, qoss |-> qoss]

\* a packet as NewControlPacket / newControlPacketWithHeader allocates it
FreshPacket(type) == CPkt(type, FALSE, 0, FALSE, 0, <<>>, <<>>, <<>>, <<>>)
NoPacket == CPkt(0, FALSE, 0, FALSE, 0, <<>>, <<>>, <<>>, <<>>)

\* a bufio.Writer with nothing buffered and no Write in progress; seq counts
\* the packets written through it, whole is the packet being written
IdleWriter ==
  [pc |-> "idle", buf |-> <<>>, p |-> <<>>, whole |-> <<>>, seq |-> 0]
Writers == {"outgoing", "keepalive"}

NoInput == [op |-> "none", n |-> 0, p |-> NoPacket, bytes |-> <<>>]
NoResult ==
  [status |-> "none", value |-> 0, lenRead |-> 0, p |-> NoPacket, rest |-> <<>>]

\* ---------------------------------------------------------------- Init
InitClient ==
  /\ tokens = [t \in TokenIds |-> NoTokenRec]
  /\ nTokens = 0
  /\ index = [i \in Ids |-> NoToken]
  /\ lastId = 0
  /\ obound = <<>>
  /\ oboundP = <<>>
  /\ incomingPubChan = <<>>
  /\ errors = <<>>
  /\ stop = FALSE
  /\ connClosed = FALSE
  /\ writerErr = FALSE
  /\ outPc = "select"
  /\ outMsg = NoMsg
  /\ inPc = "read"
  /\ inCp = NoPkt
  /\ logPc = "select"
  /\ logMsg = NoPkt
  /\ frees = [i \in Ids |-> 0]
  /\ reposts = 0
  /\ kaPc = "select"
  /\ pingTimer = [active |-> TRUE, rem |-> KeepAlive, c |-> FALSE]
  /\ pingRespTimer = [active |-> FALSE, rem |-> 0, c |-> FALSE]
  /\ lastArmed = "ping"
  /\ connLost = 0
  /\ kaLost = FALSE
  /\ panicked = FALSE
  /\ packetsSent = 0
  /\ packetsReceived = 0
  /\ respAge = -1
  /\ rtRoute = <<>>
  /\ rtTopic = <<>>
  /\ rtResult = FALSE
  /\ rtPc = "idle"
  /\ rtOp = NoOp
  /\ routes = <<>>
  /\ nElems = 0
  /\ defaultHandler = NoHandler
  /\ rPc = "new"
  /\ rOrder = FALSE
  /\ rMsg = NoPkt
  /\ rCur = NilElem
  /\ rSent = FALSE
  /\ spawned = <<>>
  /\ calls = <<>>
  /\ rFrom = 0
  /\ released = [logic |-> 0, router |-> 0]
  /\ conn = <<>>
  /\ writers = [w \in Writers |-> IdleWriter]

\* no packet is being encoded or decoded
Init ==
  /\ InitClient
  /\ cIn = NoInput
  /\ wire = <<>>
  /\ cOut = NoResult
  /\ cPc = "idle"
  /\ packetPools = [t \in PoolTypes |-> NoPacket]
  /\ reads = 0

\* ---------------------------------------------------------------- user
\* Client.Publish / Subscribe / Unsubscribe / Disconnect: create the token
\* and queue the packet (the caller blocks while the queue is full).
UserPublish(q) ==
  /\ ~panicked /\ ~stop /\ nTokens < MaxTokens
  /\ HasRoom(obound, MessageChannelDepth)
  /\ nTokens' = nTokens + 1
  /\ tokens' = [tokens EXCEPT ![nTokens + 1] = NewToken("pub", q, <<>>)]
  /\ obound' = Append(obound, [p |-> Pkt("PUBLISH", q, 0, <<>>), t |-> nTokens + 1])
  /\ UNCHANGED <<codecVars, released, idVars, oboundP, incomingPubChan, errors, sessVars, outVars,
                 inVars, logVars, frees, reposts, kaVars, panicked, routeVars>>

UserPriority(kind, subs) ==
  /\ ~panicked /\ ~stop /\ nTokens < MaxTokens
  /\ HasRoom(oboundP, MessageChannelDepth)
  /\ nTokens' = nTokens + 1
  /\ tokens' = [tokens EXCEPT ![nTokens + 1] =
                  NewToken(CASE kind = "SUBSCRIBE" -> "sub"
                             [] kind = "UNSUBSCRIBE" -> "unsub"
                             [] OTHER -> "disc", 0, subs)]
  /\ oboundP' = Append(oboundP, [p |-> Pkt(kind, 0, 0, <<>>), t |-> nTokens + 1])
  /\ UNCHANGED <<codecVars, released, idVars, obound, incomingPubChan, errors, sessVars, outVars,
                 inVars, logVars, frees, reposts, kaVars, panicked, routeVars>>

UserSubscribe(subs) == UserPriority("SUBSCRIBE", subs)
UserUnsubscribe == UserPriority("UNSUBSCRIBE", <<"a">>)
UserDisconnect == UserPriority("DISCONNECT", <<>>)

\* the client closes stop and the connection (Disconnect, ForceDisconnect)
CloseStop ==
  /\ ~panicked /\ ~stop
  /\ stop' = TRUE
  /\ connClosed' = TRUE
  /\ UNCHANGED <<codecVars, released, tokens, nTokens, idVars, obound, oboundP, incomingPubChan,
                 errors, connLost, outVars, inVars, logVars, frees, reposts,
                 kaVars, panicked, routeVars>>

\* close(c.stop) alone: the stop channel is closed and the connection is
\* still open, the first half of a shutdown
closeStop ==
  /\ ~panicked /\ ~stop
  /\ stop' = TRUE
  /\ UNCHANGED <<codecVars, released, tokens, nTokens, idVars, obound, oboundP, incomingPubChan,
                 errors, connClosed, connLost, outVars, inVars, logVars, frees,
                 reposts, kaVars, panicked, routeVars>>

\* c.conn.Close(): the second half of the shutdown
closeConn ==
  /\ ~panicked /\ stop /\ ~connClosed
  /\ connClosed' = TRUE
  /\ UNCHANGED <<codecVars, released, tokens, nTokens, idVars, obound, oboundP, incomingPubChan,
                 errors, stop, connLost, outVars, inVars, logVars, frees,
                 reposts, kaVars, panicked, routeVars>>

\* Client.internalConnLost: the connection-lost hook; it closes stop and the
\* connection, so that the activities exit.
ConnLostCalled ==
  /\ connLost' = Min(connLost + 1, 2)
  /\ stop' = TRUE
  /\ connClosed' = TRUE

\* ---------------------------------------------------------------- outgoing
\* select: case <-c.stop
OutStop ==
  /\ ~panicked /\ outPc = "select" /\ stop
  /\ outPc' = "done"
  /\ UNCHANGED <<codecVars, released, tokens, nTokens, idVars, obound, oboundP, incomingPubChan,
                 errors, sessVars, outMsg, writerErr, packetsSent, inVars,
                 logVars, frees, reposts, kaVars, panicked, routeVars>>

\* select: case pub := <-c.obound; a QoS>0 publish without an ID gets one
\* from the registry, stamped on the packet and on the token
OutRecvPub ==
  /\ ~panicked /\ outPc = "select" /\ obound # <<>>
  /\ LET pub == Head(obound)
         needId == pub.p.qos # 0 /\ pub.p.mid = 0
         id == NextFreeId
     IN /\ needId => IdAvailable
        /\ IF needId
             THEN /\ index' = [index EXCEPT ![id] = pub.t]
                  /\ lastId' = id
                  /\ tokens' = [tokens EXCEPT ![pub.t].mid = id]
                  /\ outMsg' = [pub EXCEPT !.p.mid = id]
             ELSE /\ outMsg' = pub
                  /\ UNCHANGED <<codecVars, released, idVars, tokens>>
  /\ obound' = Tail(obound)
  /\ outPc' = "pubWrite"
  /\ UNCHANGED <<codecVars, released, nTokens, oboundP, incomingPubChan, errors, sessVars,
                 writerErr, packetsSent, inVars, logVars, frees, reposts,
                 kaVars, panicked, routeVars>>

\* msg.Write(writer) and writer.Flush() succeed: a QoS 0 token is completed,
\* the packet released and counted
OutPubWriteOk ==
  /\ ~panicked /\ outPc = "pubWrite" /\ ~writerErr /\ ~connClosed
  /\ tokens' = IF outMsg.p.qos = 0 THEN AfterFlowComplete(outMsg.t) ELSE tokens
  /\ packetsSent' = packetsSent + 1
  /\ outMsg' = NoMsg
  /\ outPc' = "resetPing"
  /\ UNCHANGED <<codecVars, released, nTokens, idVars, obound, oboundP, incomingPubChan, errors,
                 sessVars, writerErr, inVars, logVars, frees, reposts, kaVars,
                 panicked, routeVars>>

\* msg.Write(writer) or writer.Flush() fails
OutPubWriteFail ==
  /\ ~panicked /\ outPc = "pubWrite"
  /\ writerErr' = TRUE
  /\ outPc' = "pubErr"
  /\ UNCHANGED <<codecVars, released, tokens, nTokens, idVars, obound, oboundP, incomingPubChan,
                 errors, sessVars, outMsg, packetsSent, inVars, logVars, frees,
                 reposts, kaVars, panicked, routeVars>>

\* c.errors <- err; msg.Release(); return
OutPostErr ==
  /\ ~panicked /\ outPc \in {"pubErr", "pErr"}
  /\ HasRoom(errors, ErrorsDepth)
  /\ errors' = Append(errors, "write")
  /\ outMsg' = NoMsg
  /\ outPc' = "done"
  /\ UNCHANGED <<codecVars, released, tokens, nTokens, idVars, obound, oboundP, incomingPubChan,
                 sessVars, writerErr, packetsSent, inVars, logVars, frees,
                 reposts, kaVars, panicked, routeVars>>

\* select: case msg := <-c.oboundP; SUBSCRIBE and UNSUBSCRIBE get their ID
OutRecvP ==
  /\ ~panicked /\ outPc = "select" /\ oboundP # <<>>
  /\ LET msg == Head(oboundP)
         needId == msg.p.kind \in {"SUBSCRIBE", "UNSUBSCRIBE"}
         id == NextFreeId
     IN /\ needId => IdAvailable
        /\ IF needId
             THEN /\ index' = [index EXCEPT ![id] = msg.t]
                  /\ lastId' = id
                  /\ outMsg' = [msg EXCEPT !.p.mid = id]
             ELSE /\ outMsg' = msg
                  /\ UNCHANGED idVars
  /\ oboundP' = Tail(oboundP)
  /\ outPc' = "pWrite"
  /\ UNCHANGED <<codecVars, released, tokens, nTokens, obound, incomingPubChan, errors, sessVars,
                 writerErr, packetsSent, inVars, logVars, frees, reposts,
                 kaVars, panicked, routeVars>>

\* what follows a priority write that returned no error: DISCONNECT
\* completes its token and ends the activity, any other packet is counted
OutPWritten ==
  IF outMsg.p.kind = "DISCONNECT"
    THEN /\ tokens' = AfterFlowComplete(outMsg.t)
         /\ outPc' = "done"
         /\ UNCHANGED packetsSent
    ELSE /\ packetsSent' = packetsSent + 1
         /\ outPc' = "resetPing"
         /\ UNCHANGED tokens

\* err := msg.p.Write(writer) returns nil (the packet fits the buffer and the
\* writer holds no earlier error); writer.Flush() then succeeds
OutPWriteOk ==
  /\ ~panicked /\ outPc = "pWrite" /\ ~writerErr /\ ~connClosed
  /\ OutPWritten
  /\ outMsg' = NoMsg
  /\ UNCHANGED <<codecVars, released, nTokens, idVars, obound, oboundP, incomingPubChan, errors,
                 sessVars, writerErr, inVars, logVars, frees, reposts, kaVars,
                 panicked, routeVars>>

\* err := msg.p.Write(writer) returns nil and writer.Flush() fails: the
\* result of Flush is dropped, the writer keeps the error
OutPFlushFail ==
  /\ ~panicked /\ outPc = "pWrite" /\ ~writerErr
  /\ writerErr' = TRUE
  /\ OutPWritten
  /\ outMsg' = NoMsg
  /\ UNCHANGED <<codecVars, released, nTokens, idVars, obound, oboundP, incomingPubChan, errors,
                 sessVars, inVars, logVars, frees, reposts, kaVars, panicked,
                 routeVars>>

\* err := msg.p.Write(writer) returns the writer's earlier error
OutPWriteFail ==
  /\ ~panicked /\ outPc = "pWrite" /\ writerErr
  /\ outPc' = "pErr"
  /\ UNCHANGED <<codecVars, released, tokens, nTokens, idVars, obound, oboundP, incomingPubChan,
                 errors, sessVars, outMsg, writerErr, packetsSent, inVars,
                 logVars, frees, reposts, kaVars, panicked, routeVars>>

\* ---------------------------------------------------------------- incoming
\* packets.ReadPacket returns a packet; then the non-blocking check of stop;
\* then the packet is counted and offered on ibound
InReadPacket(cp) ==
  /\ ~panicked /\ inPc = "read" /\ packetsReceived < MaxIn
  /\ IF stop
       THEN /\ inPc' = "done"
            /\ UNCHANGED <<codecVars, released, inCp, packetsReceived>>
       ELSE /\ inPc' = "send"
            /\ inCp' = cp
            /\ packetsReceived' = packetsReceived + 1
  /\ UNCHANGED <<codecVars, released, tokens, nTokens, idVars, obound, oboundP, incomingPubChan,
                 errors, sessVars, outVars, logVars, frees, reposts, kaVars,
                 panicked, routeVars>>

\* packets.ReadPacket returns an error: swallowed when stop is closed,
\* posted to errors otherwise
InReadErr ==
  /\ ~panicked /\ inPc = "read"
  /\ inPc' = IF stop THEN "done" ELSE "errSend"
  /\ UNCHANGED <<codecVars, released, tokens, nTokens, idVars, obound, oboundP, incomingPubChan,
                 errors, sessVars, outVars, inCp, packetsReceived,
                 logVars, frees, reposts, kaVars, panicked, routeVars>>

\* c.errors <- err; return
InPostErr ==
  /\ ~panicked /\ inPc = "errSend"
  /\ HasRoom(errors, ErrorsDepth)
  /\ errors' = Append(errors, "read")
  /\ inPc' = "done"
  /\ UNCHANGED <<codecVars, released, tokens, nTokens, idVars, obound, oboundP, incomingPubChan,
                 sessVars, outVars, inCp, packetsReceived, logVars,
                 frees, reposts, kaVars, panicked, routeVars>>

\* ---------------------------------------------------------------- alllogic
\* select: case <-c.stop
LogicStop ==
  /\ ~panicked /\ logPc = "select" /\ stop
  /\ logPc' = "done"
  /\ UNCHANGED <<codecVars, released, tokens, nTokens, idVars, obound, oboundP, incomingPubChan,
                 errors, sessVars, outVars, inVars, logMsg, frees, reposts,
                 kaVars, panicked, routeVars>>

\* select: case err := <-c.errors: c.internalConnLost(err); return
LogicErr ==
  /\ ~panicked /\ logPc = "select" /\ errors # <<>>
  /\ errors' = Tail(errors)
  /\ ConnLostCalled
  /\ logPc' = "done"
  /\ UNCHANGED <<codecVars, released, tokens, nTokens, idVars, obound, oboundP, incomingPubChan,
                 outVars, inVars, logMsg, frees, reposts, kaVars, panicked,
                 routeVars>>

\* select: case msg := <-c.ibound, the joint step with incoming's send
LogicTakes(kinds) ==
  /\ ~panicked /\ logPc = "select" /\ inPc = "send" /\ inCp.kind \in kinds
  /\ inPc' = "read"
  /\ inCp' = NoPkt
  /\ UNCHANGED packetsReceived

\* a panic of the logic goroutine ends the process
LogicPanics ==
  /\ panicked' = TRUE
  /\ UNCHANGED <<codecVars, released, tokens, idVars, frees, logVars>>

\* case *packets.PingrespPacket: logic goes on to signal resetPingResp
LogicPingresp ==
  /\ LogicTakes({"PINGRESP"})
  /\ logMsg' = inCp
  /\ logPc' = "sendResetPingResp"
  /\ UNCHANGED <<codecVars, released, tokens, nTokens, idVars, obound, oboundP, incomingPubChan,
                 errors, sessVars, outVars, frees, reposts, kaVars, panicked,
                 routeVars>>

\* a loop that stores the first granted QoS under every filter
GrantsAppliedFirst(result, subs, granted, i) ==
  [x \in DOMAIN result \cup {subs[k] : k \in 1..Len(granted)} |-> granted[1]]

\* for i, qos := range sa.GrantedQoss { token.subResult[token.subs[i]] = qos }
RECURSIVE GrantsApplied(_, _, _, _)
GrantsApplied(result, subs, granted, i) ==
  IF i > Len(granted) THEN result
  ELSE GrantsApplied(MapPut(result, subs[i], granted[i]), subs, granted, i + 1)

\* case *packets.SubackPacket
LogicSuback ==
  /\ LogicTakes({"SUBACK"})
  /\ LET t == GetToken(inCp.mid)
     IN IF \/ t = NoToken
           \/ tokens[t].kind # "sub"
           \/ Len(inCp.granted) > Len(tokens[t].subs)
          THEN LogicPanics
          ELSE /\ tokens' = [AfterFlowComplete(t) EXCEPT ![t].subResult =
                               GrantsApplied(@, tokens[t].subs, inCp.granted, 1)]
               /\ frees' = [frees EXCEPT ![inCp.mid] = @ + 1]
               /\ LogicReleases
               /\ UNCHANGED <<codecVars, idVars, logVars, panicked>>
  /\ UNCHANGED <<codecVars, nTokens, obound, oboundP, incomingPubChan, errors, sessVars,
                 outVars, reposts, kaVars, routeVars>>

\* case *packets.UnsubackPacket
LogicUnsuback ==
  /\ LogicTakes({"UNSUBACK"})
  /\ LET t == GetToken(inCp.mid)
     IN IF t = NoToken \/ tokens[t].kind # "unsub"
          THEN LogicPanics
          ELSE /\ tokens' = AfterFlowComplete(t)
               /\ frees' = [frees EXCEPT ![inCp.mid] = @ + 1]
               /\ LogicReleases
               /\ UNCHANGED <<codecVars, idVars, logVars, panicked>>
  /\ UNCHANGED <<codecVars, nTokens, obound, oboundP, incomingPubChan, errors, sessVars,
                 outVars, reposts, kaVars, routeVars>>

\* case *packets.PubackPacket and case *packets.PubcompPacket:
\* c.getToken(id).flowComplete(); c.freeID(id)
LogicAck(kind) ==
  /\ LogicTakes({kind})
  /\ LET t == GetToken(inCp.mid)
     IN IF t = NoToken
          THEN LogicPanics
          ELSE /\ tokens' = AfterFlowComplete(t)
               /\ index' = AfterFreeId(inCp.mid)
               /\ LogicReleases
               /\ UNCHANGED <<codecVars, lastId, frees, logVars, panicked>>
  /\ UNCHANGED <<codecVars, nTokens, obound, oboundP, incomingPubChan, errors, sessVars,
                 outVars, reposts, kaVars, routeVars>>

LogicPuback == LogicAck("PUBACK")
LogicPubcomp == LogicAck("PUBCOMP")

\* case *packets.PublishPacket, *packets.PubrecPacket, *packets.PubrelPacket:
\* the handler's first statement is a channel operation
LogicBegins ==
  /\ LogicTakes({"PUBLISH", "PUBREC", "PUBREL"})
  /\ logMsg' = inCp
  /\ logPc' = CASE inCp.kind = "PUBLISH" /\ inCp.qos = 0 -> "pub0Select"
                [] inCp.kind = "PUBLISH" /\ inCp.qos # 0 -> "pubRouter"
                [] OTHER -> "relSend"
  /\ UNCHANGED <<codecVars, released, tokens, nTokens, idVars, obound, oboundP, incomingPubChan,
                 errors, sessVars, outVars, frees, reposts, kaVars, panicked,
                 routeVars>>

\* a handler that hands the PUBLISH to the router and goes back to the
\* select without queueing the acknowledgement
LogicPubRouterOnly ==
  /\ ~panicked /\ logPc = "pubRouter"
  /\ HasRoom(incomingPubChan, MessageChannelDepth)
  /\ incomingPubChan' = Append(incomingPubChan, logMsg)
  /\ logPc' = "select"
  /\ logMsg' = NoPkt
  /\ UNCHANGED <<codecVars, released, tokens, nTokens, idVars, obound, oboundP, errors, sessVars,
                 outVars, inVars, frees, reposts, kaVars, panicked,
                 routeVars>>

\* QoS 1 and 2: c.incomingPubChan <- pp
LogicPubRouter ==
  /\ ~panicked /\ logPc = "pubRouter"
  /\ HasRoom(incomingPubChan, MessageChannelDepth)
  /\ incomingPubChan' = Append(incomingPubChan, logMsg)
  /\ logPc' = "pubAck"
  /\ UNCHANGED <<codecVars, released, tokens, nTokens, idVars, obound, oboundP, errors, sessVars,
                 outVars, inVars, logMsg, frees, reposts, kaVars, panicked,
                 routeVars>>

\* a reply built without pr.MessageID = pp.MessageID
ReplyToNoId(msg) ==
  CASE msg.kind = "PUBLISH" /\ msg.qos = 2 -> Pkt("PUBREC", 0, 0, <<>>)
    [] msg.kind = "PUBLISH" /\ msg.qos = 1 -> Pkt("PUBACK", 0, 0, <<>>)
    [] msg.kind = "PUBREC" -> Pkt("PUBREL", 1, 0, <<>>)
    [] msg.kind = "PUBREL" -> Pkt("PUBCOMP", 0, 0, <<>>)
    [] OTHER -> NoPkt

\* the reply the handler builds for the packet in hand
ReplyTo(msg) ==
  CASE msg.kind = "PUBLISH" /\ msg.qos = 2 -> Pkt("PUBREC", 0, msg.mid, <<>>)
    [] msg.kind = "PUBLISH" /\ msg.qos = 1 -> Pkt("PUBACK", 0, msg.mid, <<>>)
    [] msg.kind = "PUBREC" -> Pkt("PUBREL", 1, msg.mid, <<>>)
    [] msg.kind = "PUBREL" -> Pkt("PUBCOMP", 0, msg.mid, <<>>)
    [] OTHER -> NoPkt

\* c.oboundP <- &PacketAndToken{p: reply, t: nil}: a plain send after a
\* QoS 1 or 2 PUBLISH, a branch of the select with time.After for the others
LogicReply ==
  /\ ~panicked /\ logPc \in {"pubAck", "relSend"}
  /\ HasRoom(oboundP, MessageChannelDepth)
  /\ oboundP' = Append(oboundP, [p |-> ReplyTo(logMsg), t |-> NoToken])
  /\ logPc' = "select"
  /\ logMsg' = NoPkt
  /\ IF logPc = "relSend" THEN LogicReleases ELSE UNCHANGED released
  /\ UNCHANGED <<codecVars, tokens, nTokens, idVars, obound, incomingPubChan, errors,
                 sessVars, outVars, inVars, frees, reposts, kaVars, panicked,
                 routeVars>>

\* a timeout branch that leaves the select without msg.Release()
LogicReplyTimeoutNoRelease ==
  /\ ~panicked /\ logPc = "relSend"
  /\ ~HasRoom(oboundP, MessageChannelDepth)
  /\ logPc' = "select"
  /\ logMsg' = NoPkt
  /\ UNCHANGED <<codecVars, released, tokens, nTokens, idVars, obound, oboundP,
                 incomingPubChan, errors, sessVars, outVars, inVars, frees,
                 reposts, kaVars, panicked, routeVars>>

\* case <-time.After(time.Second): the writer took no reply for a second;
\* msg.Release()
LogicReplyTimeout ==
  /\ ~panicked /\ logPc = "relSend"
  /\ ~HasRoom(oboundP, MessageChannelDepth)
  /\ logPc' = "select"
  /\ logMsg' = NoPkt
  /\ LogicReleases
  /\ UNCHANGED <<codecVars, tokens, nTokens, idVars, obound, oboundP, incomingPubChan,
                 errors, sessVars, outVars, inVars, frees, reposts, kaVars,
                 panicked, routeVars>>

\* QoS 0: select { case c.incomingPubChan <- pp
LogicPub0Send ==
  /\ ~panicked /\ logPc = "pub0Select"
  /\ HasRoom(incomingPubChan, MessageChannelDepth)
  /\ incomingPubChan' = Append(incomingPubChan, logMsg)
  /\ logPc' = "select"
  /\ logMsg' = NoPkt
  /\ UNCHANGED <<codecVars, released, tokens, nTokens, idVars, obound, oboundP, errors, sessVars,
                 outVars, inVars, frees, reposts, kaVars, panicked, routeVars>>

\* QoS 0: case err, ok := <-c.errors: a goroutine puts the error back
LogicPub0Err ==
  /\ ~panicked /\ logPc = "pub0Select"
  /\ errors # <<>>
  /\ errors' = Tail(errors)
  /\ reposts' = reposts + 1
  /\ logPc' = "select"
  /\ logMsg' = NoPkt
  /\ UNCHANGED <<codecVars, released, tokens, nTokens, idVars, obound, oboundP, incomingPubChan,
                 sessVars, outVars, inVars, frees, kaVars, panicked, routeVars>>

\* go func(errVal, errChan) { errChan <- errVal }
RepostErr ==
  /\ ~panicked /\ reposts > 0
  /\ HasRoom(errors, ErrorsDepth)
  /\ errors' = Append(errors, "reposted")
  /\ reposts' = reposts - 1
  /\ UNCHANGED <<codecVars, released, tokens, nTokens, idVars, obound, oboundP, incomingPubChan,
                 sessVars, outVars, inVars, logVars, frees, kaVars, panicked,
                 routeVars>>

\* go c.freeID(id)
FreeIdRuns(id) ==
  /\ ~panicked /\ frees[id] > 0
  /\ frees' = [frees EXCEPT ![id] = @ - 1]
  /\ index' = AfterFreeId(id)
  /\ UNCHANGED <<codecVars, released, tokens, nTokens, lastId, obound, oboundP, incomingPubChan,
                 errors, sessVars, outVars, inVars, logVars, reposts, kaVars,
                 panicked, routeVars>>

\* the router's dispatcher as one step: case message := <-messages, the
\* dispatch, message.Release()
RouterTakes ==
  /\ ~panicked /\ incomingPubChan # <<>>
  /\ incomingPubChan' = Tail(incomingPubChan)
  /\ RouterReleases
  /\ UNCHANGED <<codecVars, tokens, nTokens, idVars, obound, oboundP, errors, sessVars,
                 outVars, inVars, logVars, frees, reposts, kaVars, panicked,
                 routeVars>>

\* ---------------------------------------------------------------- keepalive
\* select: case <-c.stop
KaStop ==
  /\ ~panicked /\ kaPc = "select" /\ stop
  /\ pingTimer' = TimerStop(pingTimer)
  /\ pingRespTimer' = TimerStop(pingRespTimer)
  /\ kaPc' = "done"
  /\ UNCHANGED <<codecVars, released, tokens, nTokens, idVars, obound, oboundP, incomingPubChan,
                 errors, sessVars, outVars, inVars, logVars, frees, reposts,
                 lastArmed, kaLost, respAge, panicked, routeVars>>

\* select: case <-c.resetPingResp, the joint step with alllogic's send after
\* a PINGRESP; alllogic then releases the packet
KaResetPingResp ==
  /\ ~panicked /\ kaPc = "select" /\ logPc = "sendResetPingResp"
  /\ pingRespTimer' = TimerStop(pingRespTimer)
  /\ pingTimer' = TimerReset(pingTimer, PingTimeout)
  /\ lastArmed' = "ping"
  /\ respAge' = CASE pingRespTimer.c -> -1
                  [] pingRespTimer.active -> 0
                  [] OTHER -> respAge
  /\ logPc' = "select"
  /\ logMsg' = NoPkt
  /\ LogicReleases
  /\ UNCHANGED <<codecVars, tokens, nTokens, idVars, obound, oboundP, incomingPubChan,
                 errors, sessVars, outVars, inVars, frees, reposts, kaPc,
                 kaLost, panicked, routeVars>>

\* select: case <-c.resetPing, the joint step with outgoing's send after a
\* write
KaResetPing ==
  /\ ~panicked /\ kaPc = "select" /\ outPc = "resetPing"
  /\ pingTimer' = TimerReset(pingTimer, PingTimeout)
  /\ lastArmed' = "ping"
  /\ outPc' = "select"
  /\ UNCHANGED <<codecVars, released, tokens, nTokens, idVars, obound, oboundP, incomingPubChan,
                 errors, sessVars, outMsg, writerErr, packetsSent, inVars,
                 logVars, frees, reposts, kaPc, pingRespTimer, kaLost, respAge,
                 panicked, routeVars>>

\* select: case <-pingTimer.C: write a PINGREQ, arm pingRespTimer
KaPing ==
  /\ ~panicked /\ kaPc = "select" /\ pingTimer.c
  /\ pingTimer' = TimerRecv(pingTimer)
  /\ pingRespTimer' = TimerReset(pingRespTimer, PingTimeout)
  /\ lastArmed' = "resp"
  /\ respAge' = -1
  /\ UNCHANGED <<codecVars, released, tokens, nTokens, idVars, obound, oboundP, incomingPubChan,
                 errors, sessVars, outVars, inVars, logVars, frees, reposts,
                 kaPc, kaLost, panicked, routeVars>>

\* select: case <-pingRespTimer.C: "pingresp not received, disconnecting"
KaPingRespTimeout ==
  /\ ~panicked /\ kaPc = "select" /\ pingRespTimer.c
  /\ pingRespTimer' = TimerRecv(pingRespTimer)
  /\ pingTimer' = TimerStop(pingTimer)
  /\ kaLost' = TRUE
  /\ ConnLostCalled
  /\ kaPc' = "done"
  /\ UNCHANGED <<codecVars, released, tokens, nTokens, idVars, obound, oboundP, incomingPubChan,
                 errors, outVars, inVars, logVars, frees, reposts, lastArmed,
                 respAge, panicked, routeVars>>

\* ---------------------------------------------------------------- time
\* A timer whose time is up expires: the runtime puts a value on C unless C
\* is full.  Of two timers due in the same tick the one armed first expires
\* first (both run for PingTimeout).
Due(t) == t.active /\ t.rem = 0
Expired(t) == [t EXCEPT !.active = FALSE, !.c = TRUE]

PingTimerExpires ==
  /\ ~panicked /\ Due(pingTimer)
  /\ ~(Due(pingRespTimer) /\ lastArmed = "ping")
  /\ pingTimer' = Expired(pingTimer)
  /\ UNCHANGED <<codecVars, released, tokens, nTokens, idVars, obound, oboundP, incomingPubChan,
                 errors, sessVars, outVars, inVars, logVars, frees, reposts,
                 kaPc, pingRespTimer, lastArmed, kaLost, respAge, panicked,
                 routeVars>>

PingRespTimerExpires ==
  /\ ~panicked /\ Due(pingRespTimer)
  /\ ~(Due(pingTimer) /\ lastArmed = "resp")
  /\ pingRespTimer' = Expired(pingRespTimer)
  /\ UNCHANGED <<codecVars, released, tokens, nTokens, idVars, obound, oboundP, incomingPubChan,
                 errors, sessVars, outVars, inVars, logVars, frees, reposts,
                 kaPc, pingTimer, lastArmed, kaLost, respAge, panicked,
                 routeVars>>

Ticked(t) == IF t.active THEN [t EXCEPT !.rem = @ - 1] ELSE t

\* one tick of the clock; no tick passes a timer that is due
Tick ==
  /\ ~panicked /\ ~Due(pingTimer) /\ ~Due(pingRespTimer)
  /\ pingTimer' = Ticked(pingTimer)
  /\ pingRespTimer' = Ticked(pingRespTimer)
  /\ respAge' = IF respAge >= 0 THEN Min(respAge + 1, PingTimeout) ELSE respAge
  /\ UNCHANGED <<codecVars, released, tokens, nTokens, idVars, obound, oboundP, incomingPubChan,
                 errors, sessVars, outVars, inVars, logVars, frees, reposts,
                 kaPc, lastArmed, kaLost, panicked, routeVars>>

\* ---------------------------------------------------------------- router
RouteChars == {"a", "b", "/", "+", "#"}
TopicChars == {"a", "b", "/"}
Strings(chars) == UNION {[1..n -> chars] : n \in 0..MaxLen}

\* a '+' that runs to the end of the topic
SkipLevelToEnd(topic, tp) == Len(topic)

\* for tp < lt && topic[tp] != '/' { tp += 1 }      (tp counts from 0)
RECURSIVE SkipLevel(_, _)
SkipLevel(topic, tp) ==
  IF tp < Len(topic) /\ topic[tp + 1] # "/"
    THEN SkipLevel(topic, tp + 1)
    ELSE tp

\* for rp := 0; rp < lr; rp += 1 { ... }; return tp == lt
RECURSIVE RouteLoop(_, _, _, _)
RouteLoop(route, topic, rp, tp) ==
  IF rp >= Len(route) THEN tp = Len(topic)
  ELSE IF route[rp + 1] = "#" THEN TRUE
  ELSE IF route[rp + 1] = "+"
    THEN RouteLoop(route, topic, rp + 1, SkipLevel(topic, tp))
  ELSE IF tp = Len(topic) \/ route[rp + 1] # topic[tp + 1] THEN FALSE
  ELSE RouteLoop(route, topic, rp + 1, tp + 1)

routeIncludesTopic(route, topic) ==
  IF Len(route) = 0 THEN Len(topic) = 0
  ELSE IF Len(topic) = 0 THEN Len(route) = 1 /\ route[1] = "#"
  ELSE RouteLoop(route, topic, 0, 0)

\* a call of routeIncludesTopic and its return
RouteCall(route, topic) ==
  /\ rtPc = "idle"
  /\ rtRoute' = route
  /\ rtTopic' = topic
  /\ rtResult' = routeIncludesTopic(route, topic)
  /\ rtPc' = "returned"
  /\ UNCHANGED <<codecVars, released, engineVars, rtOp, listVars, defaultHandler, dispatchVars>>

RouteReturn ==
  /\ rtPc = "returned"
  /\ rtPc' = "idle"
  /\ rtRoute' = <<>>
  /\ rtTopic' = <<>>
  /\ rtResult' = FALSE
  /\ rtOp' = NoOp
  /\ UNCHANGED <<codecVars, released, engineVars, listVars, defaultHandler, dispatchVars>>

\* ---------------------------------------------------------------- route list
RouteFilters == {<<"a">>, <<"b">>, <<"+">>}
PubTopics == {<<"a">>, <<"b">>}

\* route.match: string(r.topicBytes) == topic || routeIncludesTopic(...)
match(filter, topic) == filter = topic \/ routeIncludesTopic(filter, topic)
\* route.matchBytes
matchBytes(filter, topic) == routeIncludesTopic(filter, topic)

\* the element at which "for e := r.routes.Front(); ...; e = e.Next()" finds
\* e.Value.(*route).match(topic): its position in the list, 0 when none
FirstMatch(topic) ==
  IF \E k \in 1..Len(routes) : match(routes[k].filter, topic)
    THEN CHOOSE k \in 1..Len(routes) :
           /\ match(routes[k].filter, topic)
           /\ \A j \in 1..(k - 1) : ~match(routes[j].filter, topic)
    ELSE 0

\* list.Remove
Removed(list, k) == SubSeq(list, 1, k - 1) \o SubSeq(list, k + 1, Len(list))

\* r.Lock(): the dispatcher holds the read lock while it scans the list and
\* while the default handler of ordered mode runs
WriteLockFree == rPc \notin {"scan", "default"}

\* router.addRoute(topic, callback)
AddRoute(filter, cb) ==
  /\ rtPc = "idle" /\ WriteLockFree
  /\ LET k == FirstMatch(filter)
     IN IF k # 0
          THEN /\ routes' = [routes EXCEPT ![k].cb = cb]
               /\ UNCHANGED nElems
          ELSE /\ nElems < MaxRoutes
               /\ routes' = Append(routes, [elem |-> nElems + 1,
                                            filter |-> filter, cb |-> cb])
               /\ nElems' = nElems + 1
  /\ rtOp' = [op |-> "add", filter |-> filter, cb |-> cb]
  /\ rtPc' = "returned"
  /\ UNCHANGED <<codecVars, released, engineVars, matchVars, defaultHandler, dispatchVars>>

\* router.deleteRoute(topic); an element that is removed has no Next()
DeleteRoute(filter) ==
  /\ rtPc = "idle" /\ WriteLockFree
  /\ LET k == FirstMatch(filter)
     IN IF k # 0
          THEN /\ routes' = Removed(routes, k)
               /\ rCur' = IF rCur.elem = routes[k].elem
                            THEN [rCur EXCEPT !.removed = TRUE]
                            ELSE rCur
          ELSE UNCHANGED <<codecVars, released, routes, rCur>>
  /\ rtOp' = [op |-> "delete", filter |-> filter, cb |-> NoHandler]
  /\ rtPc' = "returned"
  /\ UNCHANGED <<codecVars, released, engineVars, matchVars, nElems, defaultHandler, rPc, rOrder,
                 rMsg, rSent, spawned, calls, rFrom>>

\* router.setDefaultHandler(handler): takes no lock
SetDefaultHandler(handler) ==
  /\ defaultHandler' = handler
  /\ UNCHANGED <<codecVars, released, engineVars, matchVars, rtPc, rtOp, listVars, dispatchVars>>

\* ---------------------------------------------------------------- dispatcher
\* what the dispatcher leaves alone outside the router
pipeVars == <<tokens, nTokens, idVars, obound, oboundP, errors, sessVars,
              outVars, inVars, logVars, frees, reposts, kaVars, panicked>>
callVars == <<matchVars, rtPc, rtOp>>

\* the position of a list element in the list, 0 when it was removed
PosOf(elem) ==
  IF \E k \in 1..Len(routes) : routes[k].elem = elem
    THEN CHOOSE k \in 1..Len(routes) : routes[k].elem = elem
    ELSE 0

\* r.routes.Front()
Front ==
  IF routes = <<>> THEN NilElem ELSE [elem |-> routes[1].elem, removed |-> FALSE]

\* e.Next(): nil at the end of the list and for an element that was removed
NextElem(e) ==
  IF e.removed \/ PosOf(e.elem) = 0 \/ PosOf(e.elem) = Len(routes)
    THEN NilElem
    ELSE [elem |-> routes[PosOf(e.elem) + 1].elem, removed |-> FALSE]

\* an invocation: the list element (0 for the default handler), the
\* callback, the payload of the message, and "begin", "end" or "go"
Ev(elem, cb, kind) ==
  [elem |-> elem, cb |-> cb, payload |-> rMsg.payload, kind |-> kind]

\* router.matchAndDispatch(messages, order, client) starts the dispatcher
RouterStarts(order) ==
  /\ ~panicked /\ rPc = "new"
  /\ rPc' = "select"
  /\ rOrder' = order
  /\ UNCHANGED <<codecVars, released, engineVars, callVars, listVars, defaultHandler, rMsg, rCur,
                 rSent, spawned, calls, rFrom>>

\* case <-r.stop
RouterStops ==
  /\ ~panicked /\ rPc = "select" /\ stop
  /\ rPc' = "done"
  /\ UNCHANGED <<codecVars, released, engineVars, callVars, listVars, defaultHandler, rOrder, rMsg,
                 rCur, rSent, spawned, calls, rFrom>>

\* case message := <-messages: sent := false; r.RLock(); e := Front()
DispatchTakes ==
  /\ ~panicked /\ rPc = "select" /\ incomingPubChan # <<>>
  /\ rMsg' = Head(incomingPubChan)
  /\ incomingPubChan' = Tail(incomingPubChan)
  /\ rSent' = FALSE
  /\ rCur' = Front
  /\ rFrom' = nElems
  /\ rPc' = "scan"
  /\ UNCHANGED <<codecVars, released, pipeVars, callVars, listVars, defaultHandler, rOrder,
                 spawned, calls>>

\* the route at e does not match the topic: e = e.Next()
DispatchSkips ==
  /\ ~panicked /\ rPc = "scan" /\ rCur # NilElem
  /\ ~matchBytes(routes[PosOf(rCur.elem)].filter, rMsg.topic)
  /\ rCur' = NextElem(rCur)
  /\ UNCHANGED <<codecVars, released, engineVars, callVars, listVars, defaultHandler, rPc, rOrder,
                 rMsg, rSent, spawned, calls, rFrom>>

\* the ordered dispatch without the wait for the callback: the callback is
\* started and the scan goes on
DispatchCallsNoWait ==
  /\ ~panicked /\ rPc = "scan" /\ rCur # NilElem /\ rOrder
  /\ matchBytes(routes[PosOf(rCur.elem)].filter, rMsg.topic)
  /\ calls' = Append(calls, Ev(rCur.elem, routes[PosOf(rCur.elem)].cb, "begin"))
  /\ rSent' = TRUE
  /\ rCur' = NextElem(rCur)
  /\ UNCHANGED <<codecVars, released, engineVars, callVars, listVars, defaultHandler, rPc, rOrder,
                 rMsg, spawned, rFrom>>

\* order: r.RUnlock(); e.Value.(*route).callback(client, ...)
DispatchCalls ==
  /\ ~panicked /\ rPc = "scan" /\ rCur # NilElem /\ rOrder
  /\ matchBytes(routes[PosOf(rCur.elem)].filter, rMsg.topic)
  /\ calls' = Append(calls, Ev(rCur.elem, routes[PosOf(rCur.elem)].cb, "begin"))
  /\ rPc' = "callback"
  /\ UNCHANGED <<codecVars, released, engineVars, callVars, listVars, defaultHandler, rOrder, rMsg,
                 rCur, rSent, spawned, rFrom>>

\* the callback returns: r.RLock(); sent = true; e = e.Next()
CallbackReturns ==
  /\ ~panicked /\ rPc = "callback"
  /\ calls' = Append(calls, [calls[Len(calls)] EXCEPT !.kind = "end"])
  /\ rSent' = TRUE
  /\ rCur' = NextElem(rCur)
  /\ rPc' = "scan"
  /\ UNCHANGED <<codecVars, released, engineVars, callVars, listVars, defaultHandler, rOrder, rMsg,
                 spawned, rFrom>>

\* !order: go e.Value.(*route).callback(client, ...); sent = true; e.Next()
DispatchSpawns ==
  /\ ~panicked /\ rPc = "scan" /\ rCur # NilElem /\ ~rOrder
  /\ matchBytes(routes[PosOf(rCur.elem)].filter, rMsg.topic)
  /\ calls' = Append(calls, Ev(rCur.elem, routes[PosOf(rCur.elem)].cb, "go"))
  /\ spawned' = Append(spawned, Ev(rCur.elem, routes[PosOf(rCur.elem)].cb, "go"))
  /\ rSent' = TRUE
  /\ rCur' = NextElem(rCur)
  /\ UNCHANGED <<codecVars, released, engineVars, callVars, listVars, defaultHandler, rPc, rOrder,
                 rMsg, rFrom>>

\* the scan is over (e == nil): r.RUnlock()
ScanOver == ~panicked /\ rPc = "scan" /\ rCur = NilElem

\* a route matched or no default handler is set: message.Release()
DispatchDone ==
  /\ ScanOver /\ (rSent \/ defaultHandler = NoHandler)
  /\ rPc' = "select"
  /\ rMsg' = NoPkt
  /\ RouterReleases
  /\ UNCHANGED <<codecVars, engineVars, callVars, listVars, defaultHandler, rOrder, rCur,
                 rSent, spawned, calls, rFrom>>

\* order: r.RLock(); r.defaultHandler(client, ...)
DispatchDefault ==
  /\ ScanOver /\ ~rSent /\ defaultHandler # NoHandler /\ rOrder
  /\ calls' = Append(calls, Ev(0, defaultHandler, "begin"))
  /\ rPc' = "default"
  /\ UNCHANGED <<codecVars, released, engineVars, callVars, listVars, defaultHandler, rOrder, rMsg,
                 rCur, rSent, spawned, rFrom>>

\* the default handler returns: r.RUnlock(); message.Release()
DefaultReturns ==
  /\ ~panicked /\ rPc = "default"
  /\ calls' = Append(calls, [calls[Len(calls)] EXCEPT !.kind = "end"])
  /\ rPc' = "select"
  /\ rMsg' = NoPkt
  /\ RouterReleases
  /\ UNCHANGED <<codecVars, engineVars, callVars, listVars, defaultHandler, rOrder, rCur,
                 rSent, spawned, rFrom>>

\* !order: go r.defaultHandler(client, ...); message.Release()
DispatchDefaultSpawns ==
  /\ ScanOver /\ ~rSent /\ defaultHandler # NoHandler /\ ~rOrder
  /\ calls' = Append(calls, Ev(0, defaultHandler, "go"))
  /\ spawned' = Append(spawned, Ev(0, defaultHandler, "go"))
  /\ rPc' = "select"
  /\ rMsg' = NoPkt
  /\ RouterReleases
  /\ UNCHANGED <<codecVars, engineVars, callVars, listVars, defaultHandler, rOrder, rCur,
                 rSent, rFrom>>

\* a callback started with "go" runs
SpawnedRuns ==
  /\ ~panicked
  /\ \E i \in 1..Len(spawned) : spawned' = Removed(spawned, i)
  /\ UNCHANGED <<codecVars, released, engineVars, callVars, listVars, defaultHandler, rPc, rOrder,
                 rMsg, rCur, rSent, calls, rFrom>>

\* ---------------------------------------------------------------- codec
\* the bitwise operators of Go on unsigned numbers
RECURSIVE BitAnd(_, _)
BitAnd(a, b) ==
  IF a = 0 \/ b = 0 THEN 0
  ELSE (a % 2) * (b % 2) + 2 * BitAnd(a \div 2, b \div 2)

RECURSIVE BitOr(_, _)
BitOr(a, b) ==
  IF a = 0 THEN b
  ELSE IF b = 0 THEN a
  ELSE (IF a % 2 = 1 \/ b % 2 = 1 THEN 1 ELSE 0) + 2 * BitOr(a \div 2, b \div 2)

\* x << k on an unsigned number of w bits: the bits shifted out are lost,
\* and a shift by w or more gives 0 (x is below 2^31, so with w - k > 30
\* no bit of x is shifted out)
Shl(x, k, w) ==
  IF k >= w THEN 0
  ELSE IF w - k > 30 THEN x * (2 ^ k)
  ELSE (x % (2 ^ (w - k))) * (2 ^ k)

\* x >> k
Shr(x, k) == x \div (2 ^ k)

\* A byte slice ([]byte, string) is kept as the sequence of its runs: a run
\* [b, n] is n >= 1 bytes b in a row, and neighbouring runs differ in b, so
\* that equal slices are equal values and a slice of 65534 bytes is small.
RECURSIVE BLen(_)
BLen(s) == IF s = <<>> THEN 0 ELSE Head(s).n + BLen(Tail(s))

\* append(s, t...)
BCat(s, t) ==
  IF s = <<>> THEN t
  ELSE IF t = <<>> THEN s
  ELSE IF s[Len(s)].b = t[1].b
    THEN SubSeq(s, 1, Len(s) - 1)
           \o <<[b |-> t[1].b, n |-> s[Len(s)].n + t[1].n]>> \o Tail(t)
    ELSE s \o t

\* the slice of the bytes listed in seq
RECURSIVE Bytes(_)
Bytes(seq) ==
  IF seq = <<>> THEN <<>>
  ELSE BCat(<<[b |-> Head(seq), n |-> 1]>>, Bytes(Tail(seq)))

\* s[k:] for k <= len(s)
RECURSIVE BDrop(_, _)
BDrop(s, k) ==
  IF k = 0 \/ s = <<>> THEN s
  ELSE IF Head(s).n <= k THEN BDrop(Tail(s), k - Head(s).n)
  ELSE <<[Head(s) EXCEPT !.n = @ - k]>> \o Tail(s)

\* s[:k] for k <= len(s)
RECURSIVE BTake(_, _)
BTake(s, k) ==
  IF k = 0 \/ s = <<>> THEN <<>>
  ELSE IF Head(s).n <= k THEN <<Head(s)>> \o BTake(Tail(s), k - Head(s).n)
  ELSE <<[Head(s) EXCEPT !.n = k]>>

\* s[i], counting from 1
BAt(s, i) == Head(BDrop(s, i - 1)).b

\* the bytes of a slice one by one
RECURSIVE Plain(_)
Plain(s) ==
  IF s = <<>> THEN <<>>
  ELSE [i \in 1..Head(s).n |-> Head(s).b] \o Plain(Tail(s))

\* the encoder cut down to its low digit
encodeLengthLowDigit(length) == <<length % 128>>

\* encodeLength: 7 bits a byte, low digit first, 0x80 on all but the last
RECURSIVE encodeLength(_)
encodeLength(length) ==
  IF length \div 128 > 0
    THEN <<BitOr(length % 128, 128)>> \o encodeLength(length \div 128)
    ELSE <<length % 128>>

\* the loop of decodeLength on the reader's bytes r, the next byte being
\* the one at pos: a read error (no byte left) is a panic; rLength is a
\* uint32
RECURSIVE decodeLengthLoop(_, _, _, _)
decodeLengthLoop(r, pos, rLength, multiplier) ==
  IF pos > BLen(r)
    THEN [status |-> "panic", value |-> 0, lenRead |-> pos - 1]
    ELSE LET digit == BAt(r, pos)
             value == BitOr(rLength, Shl(BitAnd(digit, 127), multiplier, 32))
         IN  IF BitAnd(digit, 128) = 0
               THEN [status |-> "ok", value |-> value, lenRead |-> pos]
               ELSE decodeLengthLoop(r, pos + 1, value, multiplier + 7)

decodeLength(r) == decodeLengthLoop(r, 1, 0, 0)

\* encodeString, encodeBytes: uint16(len(field)) and the bytes
encodeString(field) == BCat(Bytes(encodeUint16(BLen(field) % 65536)), field)
encodeBytes(field) == BCat(Bytes(encodeUint16(BLen(field) % 65536)), field)

\* loadByte: 0 when the slice is empty
loadByte(src) == IF src = <<>> THEN 0 ELSE BAt(src, 1)

\* loadUint16 on the first two bytes of a slice
loadWord(src) == loadUint16(Plain(BTake(src, 2))) % 65536

\* loadBytes: end is computed in uint16; src[2:end] panics when end < 2
loadBytes(src) ==
  LET end == (loadWord(src) + 2) % 65536
  IN  IF BLen(src) < end
        THEN [panic |-> FALSE, bytes |-> <<>>, end |-> BLen(src)]
      ELSE IF end < 2 THEN [panic |-> TRUE, bytes |-> <<>>, end |-> end]
      ELSE [panic |-> FALSE, bytes |-> BTake(BDrop(src, 2), end - 2),
            end |-> end]

loadString(src) == loadBytes(src)

\* ByteSlicePool.getByteSlice(size): a slice of size bytes to be filled
getByteSlice(size) == size

\* FixedHeader.pack: the type and flags byte and the remaining length
pack(fh, remainingLength) ==
  Bytes(<<BitOr(BitOr(BitOr(Shl(fh.type, 4, 8),
                            Shl(IF fh.dup THEN 1 ELSE 0, 3, 8)),
                      Shl(fh.qos, 1, 8)),
                IF fh.retain THEN 1 ELSE 0)>>
          \o encodeLength(remainingLength))

\* ---------------------------------------------------------------- packets on the wire
\* the body of a SUBSCRIBE: for each topic its string and its QoS byte
RECURSIVE SubscribeBody(_, _)
SubscribeBody(topics, qoss) ==
  IF topics = <<>> THEN <<>>
  ELSE BCat(BCat(encodeString(Head(topics)), Bytes(<<BAt(qoss, 1)>>)),
            SubscribeBody(Tail(topics), BDrop(qoss, 1)))

\* the body of an UNSUBSCRIBE: the topic strings
RECURSIVE UnsubscribeBody(_)
UnsubscribeBody(topics) ==
  IF topics = <<>> THEN <<>>
  ELSE BCat(encodeString(Head(topics)), UnsubscribeBody(Tail(topics)))

PublishWrite(p) ==
  LET body == BCat(encodeBytes(p.topic),
                   IF p.qos > 0 THEN Bytes(encodeUint16(p.mid)) ELSE <<>>)
  IN  BCat(BCat(pack(p, BLen(body) + BLen(p.payload)), body), p.payload)

PubrecWrite(pr) == BCat(pack(pr, 2), Bytes(encodeUint16(pr.mid)))

SubscribeWrite(sp) ==
  LET body == BCat(Bytes(encodeUint16(sp.mid)),
                   SubscribeBody(sp.topics, sp.qoss))
  IN  BCat(pack(sp, BLen(body)), body)

SubackWrite(sa) ==
  LET body == BCat(Bytes(encodeUint16(sa.mid)), sa.qoss)
  IN  BCat(pack(sa, BLen(body)), body)

UnsubscribeWrite(u) ==
  LET body == BCat(Bytes(encodeUint16(u.mid)), UnsubscribeBody(u.topics))
  IN  BCat(pack(u, BLen(body)), body)

\* ControlPacket.Write of the packet kinds whose source is at hand
Write(p) ==
  CASE p.type = Publish -> PublishWrite(p)
    [] p.type = Pubrec -> PubrecWrite(p)
    [] p.type = Subscribe -> SubscribeWrite(p)
    [] p.type = Suback -> SubackWrite(p)
    [] p.type = Unsubscribe -> UnsubscribeWrite(p)

\* Unpack fills the packet p (fresh, or taken from the pool with the fields
\* it was released with) from the body src; the result is p, or a panic
Unpacked(p) == [panic |-> FALSE, p |-> p]
UnpackPanics(p) == [panic |-> TRUE, p |-> p]

\* PublishPacket.Unpack; src[2:] panics on a slice of fewer than 2 bytes
PublishUnpack(p, src) ==
  LET topic == loadBytes(src)
      rest == BDrop(src, topic.end)
  IN  IF topic.panic THEN UnpackPanics(p)
      ELSE IF p.qos > 0
        THEN IF BLen(rest) < 2
               THEN UnpackPanics([p EXCEPT !.topic = topic.bytes,
                                           !.mid = loadWord(rest)])
               ELSE Unpacked([p EXCEPT !.topic = topic.bytes,
                                       !.mid = loadWord(rest),
                                       !.payload = BDrop(rest, 2)])
        ELSE Unpacked([p EXCEPT !.topic = topic.bytes, !.payload = rest])

PubrecUnpack(p, src) == Unpacked([p EXCEPT !.mid = loadWord(src)])

\* the loop of SubscribePacket.Unpack
RECURSIVE SubscribeLoop(_, _)
SubscribeLoop(p, src) ==
  IF BLen(src) > 2
    THEN LET topic == loadString(src)
             rest == BDrop(src, topic.end)
         IN  IF topic.panic THEN UnpackPanics(p)
             ELSE IF BLen(rest) < 1 THEN Unpacked(p)
             ELSE SubscribeLoop(
                    [p EXCEPT !.topics = Append(@, topic.bytes),
                              !.qoss = BCat(@, Bytes(<<loadByte(rest)>>))],
                    BDrop(rest, 1))
    ELSE Unpacked(p)

SubscribeUnpack(p, src) ==
  IF BLen(src) < 2 THEN Unpacked([p EXCEPT !.mid = loadWord(src)])
  ELSE SubscribeLoop([p EXCEPT !.mid = loadWord(src)], BDrop(src, 2))

SubackPacketUnpack(p, src) ==
  Unpacked([p EXCEPT !.mid = loadWord(src),
                     !.qoss = IF BLen(src) < 2 THEN <<>> ELSE BDrop(src, 2)])

\* the loop of UnsubscribePacket.Unpack: it ends at an empty string
RECURSIVE UnsubscribeLoop(_, _)
UnsubscribeLoop(p, src) ==
  LET topic == loadString(src)
  IN  IF topic.panic THEN UnpackPanics(p)
      ELSE IF topic.bytes = <<>> THEN Unpacked(p)
      ELSE UnsubscribeLoop([p EXCEPT !.topics = Append(@, topic.bytes)],
                           BDrop(src, topic.end))

UnsubscribeUnpack(p, src) ==
  UnsubscribeLoop([p EXCEPT !.mid = loadWord(src)], src)

\* the Unpack of the other packet kinds, as the specification gives them:
\* PUBACK, PUBREL, PUBCOMP and UNSUBACK carry a message ID, the body of the
\* remaining kinds is not looked at here
OtherUnpack(p, src) ==
  IF p.type \in {4, 6, 7, 11}
    THEN Unpacked([p EXCEPT !.mid = loadWord(src)])
    ELSE Unpacked(p)

Unpack(p, src) ==
  CASE p.type = Publish -> PublishUnpack(p, src)
    [] p.type = Pubrec -> PubrecUnpack(p, src)
    [] p.type = Subscribe -> SubscribeUnpack(p, src)
    [] p.type = Suback -> SubackPacketUnpack(p, src)
    [] p.type = Unsubscribe -> UnsubscribeUnpack(p, src)
    [] OTHER -> OtherUnpack(p, src)

\* FixedHeader.unpack: the fields of the type and flags byte; the remaining
\* length is decoded from the bytes that follow
HeaderUnpack(p, typeAndFlags, remainingLength) ==
  [p EXCEPT !.type = Shr(typeAndFlags, 4),
            !.dup = BitAnd(Shr(typeAndFlags, 3), 1) > 0,
            !.qos = BitAnd(Shr(typeAndFlags, 1), 3),
            !.retain = BitAnd(typeAndFlags, 1) > 0,
            !.remLen = remainingLength]

\* fh.MessageType - 1 in a byte
PoolIndex(type) == (type + 255) % 256

\* ReadPacket on the bytes r with pooled the packet that packetPools gives
\* (NoPacket for nil): an error with no byte to read, a panic of
\* decodeLength, a panic on an index outside packetPools, the packet taken
\* from the pool or allocated, an error of io.ReadFull on a short body, and
\* the packet unpacked.  rest are the bytes left unread.
ReadPacket(r, pooled) ==
  IF r = <<>>
    THEN [status |-> "error", value |-> 0, lenRead |-> 0, p |-> NoPacket,
          rest |-> r]
  ELSE
    LET len == decodeLength(BDrop(r, 1))
        type == Shr(BAt(r, 1), 4)
        cp == HeaderUnpack(IF pooled = NoPacket THEN FreshPacket(type) ELSE pooled,
                           BAt(r, 1), len.value)
        after == BDrop(r, 1 + len.lenRead)
        packetBytes == BTake(after, getByteSlice(len.value))
        done == Unpack(cp, packetBytes)
        result == [status |-> "ok", value |-> len.value,
                   lenRead |-> len.lenRead, p |-> NoPacket, rest |-> after]
    IN  IF len.status = "panic" THEN [result EXCEPT !.status = "panic"]
        ELSE IF type = 0 /\ type > MaxMessageType
          THEN [result EXCEPT !.status = "error"]
        ELSE IF PoolIndex(type) >= MaxMessageType - 1
          THEN [result EXCEPT !.status = "panic"]
        ELSE IF type \notin 1..MaxMessageType
          THEN [result EXCEPT !.status = "error"]
        ELSE IF BLen(after) < len.value
          THEN [result EXCEPT !.status = "error", !.rest = <<>>]
        ELSE [result EXCEPT !.status = IF done.panic THEN "panic" ELSE "ok",
                            !.p = done.p,
                            !.rest = BDrop(after, len.value)]

\* ---------------------------------------------------------------- codec session
\* everything of the client but panicked
clientVars == <<tokens, nTokens, idVars, obound, oboundP, incomingPubChan,
                errors, sessVars, outVars, inVars, logVars, frees, reposts,
                kaVars>>

\* the inputs of the codec
LengthInputs ==
  {0, 1, 127, 128, 129, 255, 256, 16383, 16384, 16385, 65535, 65536,
   2097151, 2097152, 268435455}

\* a topic as long as a UTF-8 string of MQTT may be, less one
LongLen == 65534
LongTopic == <<[b |-> 97, n |-> LongLen]>>

CodecTopics == {Bytes(<<97>>), Bytes(<<97, 47, 98>>)}
Payloads == {<<>>, Bytes(<<1, 255>>)}
MessageIDs == {1, 256, 65535}
TopicLists == {<<Bytes(<<97>>)>>, <<Bytes(<<97>>), Bytes(<<97, 47, 98>>)>>}
QosLists == {Bytes(<<0>>), Bytes(<<2>>), Bytes(<<1, 2>>), Bytes(<<128, 0>>)}

PublishPackets ==
  {CPkt(Publish, f, 0, f, 0, t, b, <<>>, <<>>) :
     f \in BOOLEAN, t \in CodecTopics, b \in Payloads}
  \cup {CPkt(Publish, f, q, ~f, m, t, b, <<>>, <<>>) :
     f \in BOOLEAN, q \in 1..2, m \in MessageIDs, t \in CodecTopics,
     b \in Payloads}
  \cup {CPkt(Publish, FALSE, 0, FALSE, 0, LongTopic, <<>>, <<>>, <<>>)}

PubrecPackets ==
  {CPkt(Pubrec, FALSE, 0, FALSE, m, <<>>, <<>>, <<>>, <<>>) : m \in MessageIDs}

SubscribeLists ==
  {tq \in TopicLists \X QosLists :
     Len(tq[1]) = BLen(tq[2]) /\ \A i \in 1..BLen(tq[2]) : BAt(tq[2], i) < 3}

SubscribePackets ==
  {CPkt(Subscribe, FALSE, 1, FALSE, m, <<>>, <<>>, tq[1], tq[2]) :
     m \in MessageIDs, tq \in SubscribeLists}

SubackPackets ==
  {CPkt(Suback, FALSE, 0, FALSE, m, <<>>, <<>>, <<>>, qs) :
     m \in MessageIDs, qs \in QosLists}

UnsubscribePackets ==
  {CPkt(Unsubscribe, FALSE, 1, FALSE, m, <<>>, <<>>, ts, <<>>) :
     m \in MessageIDs, ts \in TopicLists}

WritePackets ==
  PublishPackets \cup PubrecPackets \cup SubscribePackets \cup SubackPackets
    \cup UnsubscribePackets

\* bytes a peer may send: a header of every message type with an empty
\* body, and a PUBLISH header with remaining lengths of 2 to 6 bytes
ReceivedBytes ==
  {Bytes(<<Shl(t, 4, 8), 0>>) : t \in 0..15}
  \cup {Bytes(<<48, 128>>), Bytes(<<48, 255, 255, 255, 127>>),
        Bytes(<<48, 128, 128, 128, 128, 0>>),
        Bytes(<<48, 128, 128, 128, 128, 1>>),
        Bytes(<<48, 128, 128, 128, 128, 128, 0>>),
        Bytes(<<48, 129, 128, 128, 128, 128, 0>>)}

CodecInputs ==
  {[NoInput EXCEPT !.op = "length", !.n = n] : n \in LengthInputs}
  \cup {[NoInput EXCEPT !.op = "packet", !.p = p] : p \in WritePackets}
  \cup {[NoInput EXCEPT !.op = "bytes", !.bytes = b] : b \in ReceivedBytes}

\* the session starts with one input and takes MaxReads inputs in all
MaxReads == 2

InitCodec ==
  /\ InitClient
  /\ cIn \in CodecInputs
  /\ wire = <<>>
  /\ cOut = NoResult
  /\ cPc = "start"
  /\ packetPools = [t \in PoolTypes |-> NoPacket]
  /\ reads = 1

\* encodeLength(n)
EncodeLengthCall ==
  /\ ~panicked /\ cPc = "start" /\ cIn.op = "length"
  /\ wire' = Bytes(encodeLength(cIn.n))
  /\ cPc' = "written"
  /\ UNCHANGED <<engineVars, routeVars, released, connVars, cIn, cOut, packetPools, reads>>

\* decodeLength on the encoded bytes
DecodeLengthCall ==
  /\ ~panicked /\ cPc = "written" /\ cIn.op = "length"
  /\ cOut' = [NoResult EXCEPT !.status = decodeLength(wire).status,
                              !.value = decodeLength(wire).value,
                              !.lenRead = decodeLength(wire).lenRead,
                              !.rest = BDrop(wire, decodeLength(wire).lenRead)]
  /\ panicked' = (decodeLength(wire).status = "panic")
  /\ cPc' = "read"
  /\ UNCHANGED <<clientVars, routeVars, released, connVars, cIn, wire, packetPools, reads>>

\* p.Write(w): the packet's bytes go to the connection
PacketWrite ==
  /\ ~panicked /\ cPc = "start" /\ cIn.op = "packet"
  /\ wire' = Write(cIn.p)
  /\ cPc' = "written"
  /\ UNCHANGED <<engineVars, routeVars, released, connVars, cIn, cOut, packetPools, reads>>

\* the peer's bytes arrive
BytesArrive ==
  /\ ~panicked /\ cPc = "start" /\ cIn.op = "bytes"
  /\ wire' = cIn.bytes
  /\ cPc' = "written"
  /\ UNCHANGED <<engineVars, routeVars, released, connVars, cIn, cOut, packetPools, reads>>

\* what packetPools[fh.MessageType-1].Get() may give: nil, or the packet
\* released to that pool
Pooled(type) ==
  {NoPacket} \cup (IF type \in PoolTypes THEN {packetPools[type]} ELSE {})

\* packets.ReadPacket(reader)
ReadPacketCall ==
  /\ ~panicked /\ cPc = "written" /\ cIn.op \in {"packet", "bytes"}
  /\ \E pooled \in Pooled(Shr(BAt(wire, 1), 4)) :
       /\ cOut' = ReadPacket(wire, pooled)
       /\ packetPools' = IF pooled = NoPacket THEN packetPools
                         ELSE [packetPools EXCEPT ![pooled.type] = NoPacket]
  /\ wire' = cOut'.rest
  /\ panicked' = (cOut'.status = "panic")
  /\ cPc' = "read"
  /\ UNCHANGED <<clientVars, routeVars, released, connVars, cIn, reads>>

\* FixedHeader.Release of a packet that ReadPacket returned: the packet goes
\* back to the pool of its type with the fields it has
ReleaseCall ==
  /\ ~panicked /\ cPc = "read" /\ cOut.status = "ok"
  /\ cIn.op \in {"packet", "bytes"}
  /\ packetPools' = [packetPools EXCEPT ![cOut.p.type] = cOut.p]
  /\ cPc' = "released"
  /\ UNCHANGED <<engineVars, routeVars, released, connVars, cIn, wire, cOut, reads>>

\* the next input
CodecAgain(in) ==
  /\ ~panicked /\ cPc = "released" /\ reads < MaxReads
  /\ cIn' = in
  /\ wire' = <<>>
  /\ cOut' = NoResult
  /\ cPc' = "start"
  /\ reads' = reads + 1
  /\ UNCHANGED <<engineVars, routeVars, released, connVars, packetPools>>

\* ---------------------------------------------------------------- transport
\* the size of the buffer of bufio.NewWriter
defaultBufSize == 4096
Pingreq == 12

\* the packets outgoing writes and the PINGREQs keepalive writes in a
\* session on the transport
MaxWrites == 2
MaxPings == 2

\* a bufio.Writer whose Write always copies through the buffer
bufioWriteCopying(b, p) ==
  IF BLen(p) > defaultBufSize - BLen(b)
    THEN LET n == defaultBufSize - BLen(b)
         IN  [buf |-> <<>>, p |-> BDrop(p, n), out |-> BCat(b, BTake(p, n)),
              done |-> FALSE]
    ELSE [buf |-> BCat(b, p), p |-> <<>>, out |-> <<>>, done |-> TRUE]

\* one pass of the loop of bufio.Writer.Write(p) with b buffered: while p is
\* longer than the room left, p goes straight to the connection when the
\* buffer is empty, else the buffer is filled and flushed; what then fits is
\* copied to the buffer and Write returns.  out goes to conn.Write.
bufioWrite(b, p) ==
  IF BLen(p) > defaultBufSize - BLen(b)
    THEN IF BLen(b) = 0
           THEN [buf |-> b, p |-> <<>>, out |-> p, done |-> FALSE]
           ELSE LET n == defaultBufSize - BLen(b)
                IN  [buf |-> <<>>, p |-> BDrop(p, n),
                     out |-> BCat(b, BTake(p, n)), done |-> FALSE]
    ELSE [buf |-> BCat(b, p), p |-> <<>>, out |-> <<>>, done |-> TRUE]

\* c.conn.Write(bytes) by one of the two goroutines: the connection takes the
\* bytes of one call as a whole
connWrite(who, bytes) ==
  conn' = IF bytes = <<>> THEN conn
          ELSE Append(conn, [from |-> who, seq |-> writers[who].seq,
                             bytes |-> bytes])

\* the PUBLISH packets of the session: up to and beyond the buffer size
TransportPackets ==
  {CPkt(Publish, FALSE, 0, FALSE, 0, Bytes(<<97>>), <<[b |-> 0, n |-> len]>>,
        <<>>, <<>>) :
     len \in {1, defaultBufSize - 6, defaultBufSize - 5, defaultBufSize + 1}}

transportRest ==
  <<engineVars, routeVars, released, cIn, wire, cOut, cPc, packetPools, reads>>

\* outgoing: err := msg.Write(writer) begins, w.Write(packet.Bytes())
OutgoingWrites(p) ==
  /\ ~panicked /\ writers["outgoing"].pc = "idle"
  /\ writers["outgoing"].seq < MaxWrites
  /\ writers' = [writers EXCEPT !["outgoing"] =
                   [@ EXCEPT !.pc = "write", !.p = Write(p),
                             !.whole = Write(p), !.seq = @ + 1]]
  /\ UNCHANGED <<transportRest, conn>>

\* keepalive: w := bufio.NewWriter(c.conn); ping.Write(w) begins
KeepalivePings ==
  /\ ~panicked /\ writers["keepalive"].pc = "idle"
  /\ writers["keepalive"].seq < MaxPings
  /\ writers' = [writers EXCEPT !["keepalive"] =
                   [@ EXCEPT !.pc = "write", !.buf = <<>>,
                             !.p = pack(FreshPacket(Pingreq), 0),
                             !.whole = pack(FreshPacket(Pingreq), 0),
                             !.seq = @ + 1]]
  /\ UNCHANGED <<transportRest, conn>>

\* bufio.Writer.Write: one pass of its loop
WriterPass(who) ==
  /\ ~panicked /\ writers[who].pc = "write"
  /\ LET r == bufioWrite(writers[who].buf, writers[who].p)
     IN  /\ writers' = [writers EXCEPT ![who] =
                          [@ EXCEPT !.buf = r.buf, !.p = r.p,
                                    !.pc = IF r.done THEN "flush" ELSE "write"]]
         /\ connWrite(who, r.out)
  /\ UNCHANGED transportRest

\* writer.Flush(): what is buffered goes to the connection
WriterFlush(who) ==
  /\ ~panicked /\ writers[who].pc = "flush"
  /\ writers' = [writers EXCEPT ![who] = [@ EXCEPT !.buf = <<>>, !.pc = "idle"]]
  /\ connWrite(who, writers[who].buf)
  /\ UNCHANGED transportRest

\* ---------------------------------------------------------------- Next
User ==
  \/ \E q \in 0..2 : UserPublish(q)
  \/ \E subs \in SubLists : UserSubscribe(subs)
  \/ UserUnsubscribe
  \/ UserDisconnect
  \/ CloseStop
  \/ closeStop
  \/ closeConn

Outgoing ==
  \/ OutStop
  \/ OutRecvPub
  \/ OutPubWriteOk
  \/ OutPubWriteFail
  \/ OutPostErr
  \/ OutRecvP
  \/ OutPWriteOk
  \/ OutPFlushFail
  \/ OutPWriteFail

Incoming ==
  \/ \E cp \in InPackets : InReadPacket(cp)
  \/ InReadErr
  \/ InPostErr

Logic ==
  \/ LogicStop
  \/ LogicErr
  \/ LogicPingresp
  \/ LogicSuback
  \/ LogicUnsuback
  \/ LogicPuback
  \/ LogicPubcomp
  \/ LogicBegins
  \/ LogicPubRouter
  \/ LogicReply
  \/ LogicReplyTimeout
  \/ LogicPub0Send
  \/ LogicPub0Err

Keepalive ==
  \/ KaStop
  \/ KaResetPingResp
  \/ KaResetPing
  \/ KaPing
  \/ KaPingRespTimeout

Goroutines ==
  \/ RepostErr
  \/ \E id \in Ids : FreeIdRuns(id)
  \/ RouterTakes

Time ==
  \/ PingTimerExpires
  \/ PingRespTimerExpires
  \/ Tick

\* the steps of the engine's own goroutines
Activities == Outgoing \/ Incoming \/ Logic \/ Keepalive \/ Goroutines

Routing ==
  \/ \E route \in Strings(RouteChars), topic \in Strings(TopicChars) :
       RouteCall(route, topic)
  \/ RouteReturn

RouteList ==
  \/ \E filter \in RouteFilters, cb \in Callbacks : AddRoute(filter, cb)
  \/ \E filter \in RouteFilters : DeleteRoute(filter)
  \/ \E handler \in Callbacks \cup {NoHandler} : SetDefaultHandler(handler)

Dispatcher ==
  \/ \E order \in BOOLEAN : RouterStarts(order)
  \/ RouterStops
  \/ DispatchTakes
  \/ DispatchSkips
  \/ DispatchCalls
  \/ CallbackReturns
  \/ DispatchSpawns
  \/ DispatchDone
  \/ DispatchDefault
  \/ DefaultReturns
  \/ DispatchDefaultSpawns
  \/ SpawnedRuns

Transport ==
  \/ \E p \in TransportPackets : OutgoingWrites(p)
  \/ KeepalivePings
  \/ \E who \in Writers : WriterPass(who)
  \/ \E who \in Writers : WriterFlush(who)

Codec ==
  \/ EncodeLengthCall
  \/ DecodeLengthCall
  \/ PacketWrite
  \/ BytesArrive
  \/ ReadPacketCall
  \/ ReleaseCall
  \/ \E in \in CodecInputs : CodecAgain(in)

Next ==
  User \/ Activities \/ Time \/ Routing \/ RouteList \/ Dispatcher \/ Codec
    \/ Transport

Spec == Init /\ [][Next]_vars

\* ---------------------------------------------------------------- sessions
(***************************************************************************)
(* Spec is the whole engine with every user operation and every inbound   *)
(* packet.  The specifications below are the same actions under one kind  *)
(* of traffic each, which is what the model checker enumerates: a session *)
(* of publishes, a session of subscriptions, a session that receives      *)
(* publishes, and an idle session on the clock.                           *)
(***************************************************************************)
InReads(kinds) ==
  \E cp \in {c \in InPackets : c.kind \in kinds} : InReadPacket(cp)

\* the steps every session has
Common ==
  \/ CloseStop
  \/ OutStop
  \/ InReadErr
  \/ InPostErr
  \/ LogicStop
  \/ LogicErr
  \/ KaStop
  \/ KaResetPing

PublishWrites ==
  \/ OutRecvPub
  \/ OutPubWriteOk
  \/ OutPubWriteFail
  \/ OutPostErr

PriorityWrites ==
  \/ OutRecvP
  \/ OutPWriteOk
  \/ OutPFlushFail
  \/ OutPWriteFail

\* the user publishes; the broker acknowledges
NextSend ==
  \/ \E q \in 0..2 : UserPublish(q)
  \/ InReads({"PUBACK", "PUBREC", "PUBCOMP"})
  \/ Common
  \/ PublishWrites
  \/ PriorityWrites
  \/ LogicPuback
  \/ LogicPubcomp
  \/ LogicBegins
  \/ LogicReply
  \/ LogicReplyTimeout

SpecSend == Init /\ [][NextSend]_vars

\* the same session with the select of the PUBREC and PUBREL handlers under
\* weak fairness: the goroutine is scheduled, and of its two branches the
\* send is ready while oboundP has room and the timer of time.After fires
\* after a second otherwise
SpecSendFair == SpecSend /\ WF_vars(LogicReply \/ LogicReplyTimeout)

\* the user subscribes, unsubscribes, disconnects; the broker acknowledges
NextSubscribe ==
  \/ \E subs \in SubLists : UserSubscribe(subs)
  \/ UserUnsubscribe
  \/ UserDisconnect
  \/ InReads({"SUBACK", "UNSUBACK"})
  \/ Common
  \/ OutPostErr
  \/ PriorityWrites
  \/ LogicSuback
  \/ LogicUnsuback
  \/ \E id \in Ids : FreeIdRuns(id)

SpecSubscribe == Init /\ [][NextSubscribe]_vars

\* the broker publishes to the client, which has publishes of its own in
\* flight
NextReceive ==
  \/ \E q \in 1..2 : UserPublish(q)
  \/ InReads({"PUBLISH", "PUBREC", "PUBREL"})
  \/ Common
  \/ PublishWrites
  \/ PriorityWrites
  \/ LogicBegins
  \/ LogicPubRouter
  \/ LogicReply
  \/ LogicReplyTimeout
  \/ LogicPub0Send
  \/ LogicPub0Err
  \/ RepostErr
  \/ RouterTakes

SpecReceive == Init /\ [][NextReceive]_vars

\* an idle session on the clock: QoS 0 publishes and PINGRESPs only
NextKeepalive ==
  \/ UserPublish(0)
  \/ InReads({"PINGRESP"})
  \/ Common
  \/ PublishWrites
  \/ LogicPingresp
  \/ KaResetPingResp
  \/ KaPing
  \/ KaPingRespTimeout
  \/ Time

SpecKeepalive == Init /\ [][NextKeepalive]_vars

\* the router's matcher called on every filter and topic up to MaxLen bytes
NextRoute == Routing

SpecRoute == Init /\ [][NextRoute]_vars

\* the user subscribes and unsubscribes: calls of addRoute, deleteRoute and
\* setDefaultHandler while no message is dispatched
NextRouteList == RouteList \/ RouteReturn

SpecRouteList == Init /\ [][NextRouteList]_vars

\* the broker publishes at QoS 0 and 1, the n-th publish with payload n;
\* alllogic hands the publishes to the dispatcher while the user adds and
\* deletes routes with one callback and sets one default handler
InReadsPublish ==
  \E topic \in PubTopics :
     \/ InReadPacket(PubPkt(0, 0, topic, packetsReceived + 1))
     \/ InReadPacket(PubPkt(1, 1, topic, packetsReceived + 1))

NextDispatch ==
  \/ InReadsPublish
  \/ LogicBegins
  \/ LogicPub0Send
  \/ LogicPubRouter
  \/ LogicReply
  \/ OutRecvP
  \/ OutPWriteOk
  \/ KaResetPing
  \/ \E filter \in RouteFilters : AddRoute(filter, 1)
  \/ \E filter \in RouteFilters : DeleteRoute(filter)
  \/ SetDefaultHandler(MaxCb)
  \/ RouteReturn
  \/ \E order \in BOOLEAN : RouterStarts(order)
  \/ DispatchTakes
  \/ DispatchSkips
  \/ DispatchCalls
  \/ CallbackReturns
  \/ DispatchSpawns
  \/ DispatchDone
  \/ DispatchDefault
  \/ DefaultReturns
  \/ DispatchDefaultSpawns
  \/ SpawnedRuns

SpecDispatch == Init /\ [][NextDispatch]_vars

\* a shutdown in two steps while publishes are queued: stop is closed before
\* anything was written, the connection some time later
NextStop ==
  \/ \E q \in 0..1 : UserPublish(q)
  \/ (packetsSent = 0 /\ closeStop)
  \/ closeConn
  \/ OutStop
  \/ PublishWrites
  \/ LogicStop
  \/ LogicErr
  \/ KaStop
  \/ KaResetPing

SpecStop == Init /\ [][NextStop]_vars

\* the codec on its own: lengths are encoded and decoded, packets are
\* written and read back, received bytes are read, read packets are released
NextCodec == Codec

SpecCodec == InitCodec /\ [][NextCodec]_vars

\* the transport on its own: outgoing writes PUBLISH packets through its
\* buffered writer while keepalive writes PINGREQs through its own
NextTransport == Transport

SpecTransport == Init /\ [][NextTransport]_vars

\* ---------------------------------------------------------------- claims
\* alllogic takes a packet of this kind and ID from ibound in this step
LogicProcesses(kind, id) ==
  /\ logPc = "select" /\ inPc = "send" /\ inPc' = "read"
  /\ inCp.kind = kind /\ inCp.mid = id

AllExited ==
  outPc = "done" /\ inPc = "done" /\ logPc = "done" /\ kaPc = "done"

\* C1: a publish token is completed only by the event of its QoS: QoS 0 by
\* outgoing's successful write of that publish, QoS 1 by alllogic processing
\* a PUBACK with the token's ID, QoS 2 by alllogic processing a PUBCOMP with
\* the token's ID.
C1_CompletedByOwnAck ==
  [][\A t \in TokenIds :
       (tokens[t].kind = "pub" /\ tokens'[t].done > tokens[t].done) =>
         CASE tokens[t].qos = 0 ->
                outPc = "pubWrite" /\ outMsg.t = t /\ outPc' = "resetPing"
           [] tokens[t].qos = 1 -> LogicProcesses("PUBACK", tokens[t].mid)
           [] OTHER -> LogicProcesses("PUBCOMP", tokens[t].mid)]_vars

\* C2: an ID that is held is freed only after the terminating ack of its
\* holder was processed: by the step that processes PUBACK (QoS 1 publish)
\* or PUBCOMP (QoS 2 publish), or, for a subscribe or unsubscribe, by the
\* freeID goroutine started when its SUBACK or UNSUBACK completed it.
C2_FreedByTerminatingAck ==
  [][\A i \in Ids :
       (index[i] # NoToken /\ index'[i] = NoToken) =>
         LET t == index[i]
         IN CASE tokens[t].kind = "pub" /\ tokens[t].qos = 1 ->
                   LogicProcesses("PUBACK", i)
              [] tokens[t].kind = "pub" -> LogicProcesses("PUBCOMP", i)
              [] OTHER -> frees'[i] < frees[i] /\ tokens[t].done >= 1]_vars

\* C3: flowComplete is never invoked a second time on a token.
C3_CompletedOnce == \A t \in TokenIds : tokens[t].done <= 1

\* C6: once stop is closed, an activity that has not exited can still take
\* a step: the engine never comes to rest with an activity blocked.
C6_AllExitAfterStop ==
  (stop /\ ~panicked /\ ~ENABLED Activities) => AllExited

\* C7: the connection-lost hook is not invoked twice in a session.
C7_ConnLostOnce == connLost <= 1

\* C8: after a PINGRESP that answered the PINGREQ in time, keepalive does not
\* declare the connection lost before it writes another PINGREQ, and it
\* writes that PINGREQ only when PingTimeout has passed since the PINGRESP.
C8_NextPingAfterFullPeriod ==
  /\ [][respAge >= 0 => ~(kaLost' /\ ~kaLost)]_vars
  /\ [][(respAge >= 0 /\ respAge' < 0) => respAge = PingTimeout]_vars

\* C9: while keepalive runs, the deadline armed by a PINGREQ is not disarmed
\* and not moved back by any step other than the receipt of resetPingResp:
\* the timer stays armed with no more time left than before, or expires.
C9_DeadlineKept ==
  [][(/\ pingRespTimer.active
      /\ kaPc' = "select"
      /\ ~(logPc = "sendResetPingResp" /\ logPc' = "select"))
       => \/ pingRespTimer'.active /\ pingRespTimer'.rem <= pingRespTimer.rem
          \/ ~pingRespTimer'.active /\ pingRespTimer'.c]_vars

\* the reply the MQTT handshake prescribes for an inbound packet
ReplyKind(msg) ==
  CASE msg.kind = "PUBLISH" /\ msg.qos = 1 -> "PUBACK"
    [] msg.kind = "PUBLISH" /\ msg.qos = 2 -> "PUBREC"
    [] msg.kind = "PUBREC" -> "PUBREL"
    [] msg.kind = "PUBREL" -> "PUBCOMP"
    [] OTHER -> "none"

\* alllogic is inside the handler of a PUBLISH, PUBREC or PUBREL
LogicHandles == logPc \in {"pubRouter", "pubAck", "pub0Select", "relSend"}

C5_SubackFillsResult ==
  [][\A i \in Ids :
       LET t == index[i]
       IN (/\ LogicProcesses("SUBACK", i)
           /\ t # NoToken
           /\ tokens[t].kind = "sub"
           /\ tokens[t].done = 0
           /\ Len(inCp.granted) = Len(tokens[t].subs))
          => /\ \A k \in 1..Len(tokens[t].subs) :
                  /\ tokens[t].subs[k] \in DOMAIN tokens'[t].subResult
                  /\ tokens'[t].subResult[tokens[t].subs[k]] = inCp.granted[k]
             /\ tokens'[t].done = 1
             /\ index'[i] = t
             /\ frees'[i] = frees[i] + 1]_vars

\* C5 witness: a subscribe for "a" and "b" completed with the result
\* {a: 1, b: 0x80}, and its ID was freed
C5_ResultDelivered ==
  \E t \in TokenIds :
    /\ tokens[t].kind = "sub"
    /\ tokens[t].subs = <<"a", "b">>
    /\ tokens[t].done = 1
    /\ DOMAIN tokens[t].subResult = {"a", "b"}
    /\ tokens[t].subResult["a"] = 1
    /\ tokens[t].subResult["b"] = 128
    /\ \A i \in Ids : index[i] # t /\ frees[i] = 0

\* the levels of a topic or filter: the pieces between the '/' separators
RECURSIVE Levels(_)
Levels(s) ==
  IF \A k \in 1..Len(s) : s[k] # "/" THEN <<s>>
  ELSE LET k == CHOOSE k \in 1..Len(s) :
                  s[k] = "/" /\ \A j \in 1..(k - 1) : s[j] # "/"
       IN <<SubSeq(s, 1, k - 1)>> \o Levels(SubSeq(s, k + 1, Len(s)))

\* a filter of literal levels and whole-level '+' wildcards
PlusFilter(filter) ==
  /\ \A k \in 1..Len(filter) : filter[k] # "#"
  /\ \A n \in 1..Len(Levels(filter)) :
       LET level == Levels(filter)[n]
       IN (\E k \in 1..Len(level) : level[k] = "+") => level = <<"+">>

\* the MQTT 3.1.1 rule: as many levels, each filter level '+' or the
\* topic's level
LevelRule(filter, topic) ==
  /\ Len(Levels(filter)) = Len(Levels(topic))
  /\ \A n \in 1..Len(Levels(filter)) :
       \/ Levels(filter)[n] = <<"+">>
       \/ Levels(filter)[n] = Levels(topic)[n]

\* C10 as stated: for every filter of literal levels and whole-level '+'
\* and every topic, routeIncludesTopic returns what the level rule says.
C10_MatchesLevelRule ==
  (rtPc = "returned" /\ PlusFilter(rtRoute))
    => (rtResult <=> LevelRule(rtRoute, rtTopic))

\* C10 for topics of at least one byte: for every filter of literal levels
\* and whole-level '+' and every non-empty topic, routeIncludesTopic returns
\* what the level rule says.
C10_MatchesLevelRuleNonEmptyTopic ==
  (rtPc = "returned" /\ PlusFilter(rtRoute) /\ rtTopic # <<>>)
    => (rtResult <=> LevelRule(rtRoute, rtTopic))

\* C10 witness: a/+ was matched against a/ and the answer was true
C10_EmptyLevelMatched ==
  /\ rtPc = "returned"
  /\ rtRoute = <<"a", "/", "+">>
  /\ rtTopic = <<"a", "/">>
  /\ rtResult

\* a filter P/# with P free of wildcards, or # alone
HashFilter(filter) ==
  /\ Len(filter) >= 1
  /\ filter[Len(filter)] = "#"
  /\ Len(filter) > 1 => filter[Len(filter) - 1] = "/"
  /\ \A k \in 1..(Len(filter) - 1) : filter[k] \notin {"#", "+"}

\* the topic is P, or starts with P followed by '/'; # alone takes any topic
HashRule(filter, topic) ==
  \/ Len(filter) = 1
  \/ LET P == SubSeq(filter, 1, Len(filter) - 2)
     IN \/ topic = P
        \/ /\ Len(topic) > Len(P)
           /\ SubSeq(topic, 1, Len(P) + 1) = P \o <<"/">>

\* C11: for every filter P/# (or # alone) and every topic of at least one
\* byte, routeIncludesTopic returns true exactly when the topic is P or
\* starts with P followed by '/'.
C11_HashMatchesRemainingLevels ==
  (rtPc = "returned" /\ HashFilter(rtRoute) /\ rtTopic # <<>>)
    => (rtResult <=> HashRule(rtRoute, rtTopic))

\* the positions of the routes whose filter bytes are identical to filter
SameFilter(filter) == {k \in 1..Len(routes) : routes[k].filter = filter}

\* C12: addRoute(f, cb) replaces the callback of the route whose filter is
\* identical to f and changes nothing else; when there is no such route it
\* appends the route (f, cb) and leaves the others unchanged.
C12_AddReplacesIdenticalOrAppends ==
  [][(rtPc = "idle" /\ rtPc' = "returned" /\ rtOp'.op = "add")
       => LET f == rtOp'.filter
              cb == rtOp'.cb
          IN IF SameFilter(f) # {}
               THEN /\ Len(routes') = Len(routes)
                    /\ \A k \in 1..Len(routes) :
                         routes'[k] = IF k \in SameFilter(f)
                                        THEN [routes[k] EXCEPT !.cb = cb]
                                        ELSE routes[k]
               ELSE /\ Len(routes') = Len(routes) + 1
                    /\ \A k \in 1..Len(routes) : routes'[k] = routes[k]
                    /\ routes'[Len(routes')].filter = f
                    /\ routes'[Len(routes')].cb = cb]_vars

\* C13: deleteRoute(f) removes the route whose filter is identical to f and
\* leaves the other routes and their order unchanged; when no route has the
\* filter f the list is unchanged.
C13_DeleteRemovesIdenticalOnly ==
  [][(rtPc = "idle" /\ rtPc' = "returned" /\ rtOp'.op = "delete")
       => LET f == rtOp'.filter
          IN IF SameFilter(f) # {}
               THEN routes' = Removed(routes, CHOOSE k \in SameFilter(f) :
                                        \A j \in SameFilter(f) : k <= j)
               ELSE routes' = routes]_vars


\* the invocations made for the message being dispatched
Invoked ==
  {i \in 1..Len(calls) : /\ calls[i].payload = rMsg.payload
                         /\ calls[i].kind \in {"begin", "go"}}

\* the dispatch of one message finishes in this step
DispatchFinishes == ScanOver /\ rPc' # "scan"

\* C14: when the dispatch of a PUBLISH finishes, every route that was
\* registered throughout the dispatch and matches the topic has had its
\* callback invoked for the message, the invocations were made in insertion
\* order, and the default handler is invoked exactly when it is set and no
\* route was invoked.
C14_EveryMatchingRouteInvoked ==
  [][DispatchFinishes =>
       /\ \A k \in 1..Len(routes) :
            (routes[k].elem <= rFrom /\ matchBytes(routes[k].filter, rMsg.topic))
              => \E i \in Invoked : calls[i].elem = routes[k].elem
       /\ \A i, j \in Invoked : i < j => calls[i].elem < calls[j].elem
       /\ (\E i \in 1..Len(calls') : /\ calls'[i].payload = rMsg.payload
                                     /\ calls'[i].elem = 0)
            <=> (defaultHandler # NoHandler /\ Invoked = {})]_vars

\* the invocations of route callbacks made by the ordered dispatcher
Begins == {i \in 1..Len(calls) : calls[i].kind = "begin" /\ calls[i].elem # 0}

\* C15: in ordered mode, of two publishes that reach the same route the one
\* that arrived first on the wire has its callback invoked first, and that
\* callback has returned before the callback for the second is invoked.
C15_OrderedCallbacksDoNotOverlap ==
  rOrder =>
    \A i, j \in Begins :
       (calls[i].elem = calls[j].elem /\ calls[i].payload < calls[j].payload)
         => /\ i < j
            /\ \E k \in (i + 1)..(j - 1) :
                 calls[k] = [calls[i] EXCEPT !.kind = "end"]

\* two publishes have been dispatched in order to one route
C15_TwoPublishesToOneRoute ==
  /\ rOrder
  /\ \E i, j \in Begins :
       calls[i].elem = calls[j].elem /\ calls[i].payload < calls[j].payload

\* a byte with the continuation bit 0x80
Continues(b) == BitAnd(b, 128) # 0

\* C16: a remaining length n that was encoded and decoded comes back as n,
\* its encoding has 1 to 4 bytes, and the continuation bit is set on every
\* byte but the last.
C16_LengthRoundTrip ==
  (cIn.op = "length" /\ cPc = "read") =>
     /\ cOut.status = "ok"
     /\ cOut.value = cIn.n
     /\ cOut.lenRead = BLen(wire)
     /\ BLen(wire) \in 1..4
     /\ \A i \in 1..BLen(wire) : Continues(BAt(wire, i)) <=> i < BLen(wire)

\* the largest remaining length went through four bytes and back
C16_LargestLengthDecoded ==
  /\ cIn.op = "length" /\ cPc = "read"
  /\ cIn.n = 268435455
  /\ BLen(wire) = 4
  /\ cOut.value = 268435455

\* the fields of a packet that a round trip has to keep
Fields(p) ==
  <<p.type, p.dup, p.qos, p.retain, p.mid, p.topic, p.payload, p.topics,
    p.qoss>>

\* the first packet of the session was written and read back into a packet
\* that did not come from the pool
ReadBack(types) ==
  /\ cIn.op = "packet" /\ cIn.p.type \in types
  /\ cPc = "read" /\ reads = 1

\* C17: a PUBLISH, PUBREC, SUBSCRIBE or SUBACK with legal fields that was
\* written and read back with ReadPacket into a fresh packet is returned
\* with the same kind, header flags, message ID, topic, payload, topic list
\* and QoS list.
C17_PacketRoundTrip ==
  ReadBack({Publish, Pubrec, Subscribe, Suback}) =>
     /\ cOut.status = "ok"
     /\ Fields(cOut.p) = Fields(cIn.p)

\* C18: an UNSUBSCRIBE with a message ID in 1..65535 and one or more
\* non-empty topic filters that was written and unpacked has the same
\* message ID and the same list of filters in the same order.
C18_UnsubscribeRoundTrip ==
  ReadBack({Unsubscribe}) =>
     /\ cOut.status = "ok"
     /\ cOut.p.mid = cIn.p.mid
     /\ cOut.p.topics = cIn.p.topics

\* C19: ReadPacket on a fixed header with message type 0 or 15 returns an
\* error and no packet, without a panic; on a fixed header with a message
\* type in 1..14 it returns a packet of that type.
C19_UnknownTypeIsAnError ==
  (cIn.op = "bytes" /\ cPc = "read" /\ BLen(cIn.bytes) = 2) =>
     IF Shr(BAt(cIn.bytes, 1), 4) \in 1..14
       THEN cOut.status = "ok" /\ cOut.p.type = Shr(BAt(cIn.bytes, 1), 4)
       ELSE cOut.status = "error" /\ cOut.p = NoPacket

\* C20: when the first four bytes of a remaining length all have the
\* continuation bit, decoding fails with an error and no fifth length byte
\* is read; every remaining length that is accepted is at most 268435455.
C20_AtMostFourLengthBytes ==
  (cIn.op = "bytes" /\ cPc = "read") =>
     /\ cOut.lenRead <= 4
     /\ cOut.value <= 268435455
     /\ (BLen(cIn.bytes) >= 5 /\ \A i \in 2..5 : Continues(BAt(cIn.bytes, i)))
          => cOut.status = "error"

\* the last element of oboundP' was queued by this step and is an
\* acknowledgement of an inbound PUBLISH
AckQueued ==
  /\ Len(oboundP') > Len(oboundP)
  /\ oboundP'[Len(oboundP')].p.kind \in {"PUBACK", "PUBREC"}

\* C21: alllogic, having taken a PUBLISH of QoS 1 or 2 from ibound, first
\* sends that packet on incomingPubChan, then queues exactly one reply on
\* oboundP, a PUBACK for QoS 1 and a PUBREC for QoS 2 with the packet's
\* message ID, and takes nothing from ibound in between; a PUBACK or PUBREC
\* is queued on oboundP by no other step, so that the acknowledgements enter
\* oboundP in the order in which the PUBLISH packets were taken.
C21_AckQueuedBeforeNextReceive ==
  [][/\ (/\ logPc = "select" /\ inPc = "send" /\ inPc' = "read"
         /\ inCp.kind = "PUBLISH" /\ inCp.qos \in {1, 2})
          => (logPc' = "pubRouter" /\ logMsg' = inCp)
     /\ logPc \in {"pubRouter", "pubAck"}
          => /\ ~(inPc = "send" /\ inPc' = "read")
             /\ logPc' \in {logPc, IF logPc = "pubRouter" THEN "pubAck" ELSE "select"}
     /\ (logPc = "pubRouter" /\ logPc' = "pubAck")
          => /\ incomingPubChan' = Append(incomingPubChan, logMsg)
             /\ logMsg' = logMsg
             /\ oboundP' = oboundP
     /\ (logPc = "pubAck" /\ logPc' = "select")
          => /\ oboundP' = Append(oboundP,
                  [p |-> Pkt(IF logMsg.qos = 1 THEN "PUBACK" ELSE "PUBREC",
                             0, logMsg.mid, <<>>),
                   t |-> NoToken])
             /\ incomingPubChan' = incomingPubChan
     /\ AckQueued => (logPc = "pubAck" /\ logPc' = "select")]_vars

\* C21 witness: the PUBREC of a first PUBLISH is queued, alllogic is back at
\* its select, and a second PUBLISH waits at ibound
C21_AckQueuedSecondWaits ==
  /\ logPc = "select"
  /\ oboundP # <<>>
  /\ Head(oboundP).p.kind = "PUBREC"
  /\ inPc = "send"
  /\ inCp.kind = "PUBLISH" /\ inCp.qos = 1
  /\ inCp.mid # Head(oboundP).p.mid

\* C22: in a shutdown where stop is closed before outgoing has written
\* anything, outgoing writes at most one packet in all: the one it held when
\* stop was closed, and none of those still queued on obound.
C22_OneWriteAfterStop == stop => packetsSent <= 1

\* outgoing's Write or Flush of the packet in hand fails in this step
WriteFails ==
  /\ outPc \in {"pubWrite", "pWrite"}
  /\ outPc' # outPc
  /\ writerErr'

\* C23: a step in which outgoing's Write or Flush fails, for a PUBLISH and
\* for a priority packet alike, neither counts the packet in packetsSent
\* nor completes a token, and leads to the exit path, on which the error is
\* posted to errors, the packet is dropped and the activity ends.
C23_FailedWriteEndsOutgoing ==
  [][/\ WriteFails
          => /\ outPc' \in {"pubErr", "pErr"}
             /\ packetsSent' = packetsSent
             /\ tokens' = tokens
     /\ (outPc \in {"pubErr", "pErr"} /\ outPc' # outPc)
          => /\ errors' = Append(errors, "write")
             /\ outMsg' = NoMsg
             /\ outPc' = "done"]_vars

\* the packets alllogic has taken from ibound so far
Taken == packetsReceived - (IF inPc = "send" THEN 1 ELSE 0)

\* the taken packets that are still with alllogic (which has passed a QoS 1
\* or 2 PUBLISH on once it is about to queue the reply), on incomingPubChan
\* or with the dispatcher
InHand ==
  (IF logMsg # NoPkt /\ logPc # "pubAck" THEN 1 ELSE 0) + Len(incomingPubChan)
    + (IF rMsg # NoPkt THEN 1 ELSE 0)

\* C24: every packet alllogic has taken from ibound is either still being
\* processed (with alllogic, on incomingPubChan, with the dispatcher) or has
\* been released exactly once; alllogic releases only packets that are not
\* PUBLISH, the router releases only PUBLISH packets it took from
\* incomingPubChan, and every release is of one packet.
C24_TakenPacketsReleasedOnce ==
  /\ [](~panicked => released.logic + released.router + InHand = Taken)
  /\ [][/\ released'.logic \in {released.logic, released.logic + 1}
        /\ released'.router \in {released.router, released.router + 1}
        /\ released'.logic # released.logic
             => (IF logMsg # NoPkt THEN logMsg ELSE inCp).kind
                  \notin {"PUBLISH", "none"}
        /\ released'.router # released.router
             => \/ rMsg.kind = "PUBLISH"
                \/ /\ incomingPubChan # <<>>
                   /\ Head(incomingPubChan).kind = "PUBLISH"]_vars

\* C25: while the dispatcher is inside the scan of the route list for one
\* message, the callbacks of the ordered mode included, no step changes the
\* list; and when the dispatch finishes, every route that was in the list
\* when the scan started, is still in it and matches the topic has had
\* exactly one invocation for the message.
C25_ListUnchangedDuringScan ==
  [][/\ rPc \in {"scan", "callback"} => routes' = routes
     /\ DispatchFinishes =>
          \A k \in 1..Len(routes) :
             (routes[k].elem <= rFrom /\ matchBytes(routes[k].filter, rMsg.topic))
               => Cardinality({i \in Invoked : calls[i].elem = routes[k].elem}) = 1]_vars

C27_DecodingIgnoresPooledFields ==
  (cPc = "read" /\ cIn.op = "packet" /\ cOut.status = "ok")
    => Fields(cOut.p) = Fields(ReadPacket(Write(cIn.p), NoPacket).p)

\* the bytes the connection has taken so far of the packet seq of a writer
RECURSIVE WrittenOf(_, _, _)
WrittenOf(who, seq, k) ==
  IF k = 0 THEN <<>>
  ELSE BCat(WrittenOf(who, seq, k - 1),
            IF conn[k].from = who /\ conn[k].seq = seq
              THEN conn[k].bytes ELSE <<>>)

\* C28: on the connection the bytes of each packet of outgoing and of each
\* PINGREQ of keepalive form one contiguous run: between two pieces of one
\* packet there is no piece of another, and the pieces of the packet a
\* writer is at, followed by what it has buffered and has still to write,
\* are the bytes of the packet.
C28_PacketsContiguousOnConn ==
  /\ \A i, k \in 1..Len(conn) : \A j \in i..k :
        (conn[i].from = conn[k].from /\ conn[i].seq = conn[k].seq)
          => (conn[j].from = conn[i].from /\ conn[j].seq = conn[i].seq)
  /\ \A who \in Writers :
        LET w == writers[who]
        IN  w.seq > 0
              => BCat(BCat(WrittenOf(who, w.seq, Len(conn)), w.buf), w.p)
                   = w.whole

\* C28 witness: a PUBLISH longer than the writer's buffer is on the
\* connection in one piece, a PINGREQ follows it, and keepalive is at the
\* Flush of its next PINGREQ
C28_PingBesideLargePublish ==
  /\ Len(conn) = 2
  /\ conn[1].from = "outgoing" /\ BLen(conn[1].bytes) > defaultBufSize
  /\ conn[1].bytes = writers["outgoing"].whole
  /\ conn[2].from = "keepalive" /\ conn[2].bytes = Bytes(<<192, 0>>)
  /\ writers["keepalive"].pc = "flush" /\ writers["keepalive"].seq = 2

\* C29: in ordered mode, while a callback invoked by the dispatcher is running,
\* a route callback or the default handler, a call of deleteRoute (or
\* addRoute) made by it can take the router's lock and return: the
\* dispatcher does not hold the lock across the callback.
C29_OrderedCallbackCanChangeRoutes ==
  (rOrder /\ rPc \in {"callback", "default"} /\ rtPc = "idle")
    => ENABLED (\E filter \in RouteFilters : DeleteRoute(filter))
=============================================================================
